---- MODULE Spec2Model ----
(***************************************************************************)
(* Napcat OneBot v11 plugin.                                               *)
(*                                                                         *)
(* Spec        : one connection instance made by createOneBotConnection    *)
(*               (socket lifecycle, reconnection, pending-request table,   *)
(*               sendAction with its HTTP fallback, stop).                 *)
(* SpecLive    : the same connection instance with timers that fire.       *)
(* SpecGateway : the process-wide registry activeConnections and the       *)
(*               gateway operations startAccount / stopAccount, the stop   *)
(*               handle and the abort listener.                            *)
(* SpecCodec   : parseOneBotMessage on wire messages built segment by      *)
(*               segment.                                                  *)
(* SpecDeliver : deliver(payload) of the reply dispatcher: sendTextChunks, *)
(*               sendNapcatMedia and resolveMediaSegmentType, one send at  *)
(*               a time.                                                   *)
(* SpecInbound : handlePrivateMessage, one invocation per received event,  *)
(*               interleaved at its awaits, with the account captured by   *)
(*               startAccount, the live configuration and the host's       *)
(*               allow-list and pairing stores.                            *)
(* SpecReconfig: the same invocations while the configuration is edited    *)
(*               and the account restarted.                                *)
(***************************************************************************)
EXTENDS Integers, Sequences, FiniteSets

\* ---------------------------------------------------------------- bounds

\* sendAction invocations made on the connection instance
MaxCalls == 2
\* sockets that may exist at once without having emitted "close"
MaxSockets == 2
\* closures in a row without a successful open
MaxAttempts == 5
\* connections startAccount may create
MaxConns == 3
\* segments of a received array message
MaxSegs == 2
\* events handed to handlePrivateMessage
MaxEvents == 2
\* edits of the account's dmPolicy / allowFrom in the live configuration
MaxEdits == 1
\* characters of a reply text
MaxText == 4
\* media references of a reply
MaxMedia == 2

\* ------------------------------------------------------ program constants

REQUEST_TIMEOUT_MS == 10000
RECONNECT_BASE_MS == 1000
RECONNECT_MAX_MS == 15000
DEFAULT_TEXT_LIMIT == 2000

\* ------------------------------------------------------------- variables

VARIABLES
    \* closure state of createOneBotConnection
    ws,                 \* 0 (null) or the id of the socket `ws` refers to
    stopped,
    echoCounter,
    reconnectAttempts,
    pending,            \* Map echo -> the sendAction call that owns the entry
    \* environment of the closure
    socks,              \* socket slot -> readyState; a CLOSED slot is free
    timers,             \* armed request timers: owning call -> delay in ms
    retryTimers,        \* armed setTimeout(connect, delay) timers: their delays
    httpUrl,            \* opts.httpUrl is configured
    calls,              \* the sendAction invocations, by call number
    \* history
    settled,            \* call -> how often its entry's resolve or reject ran
    assigned,           \* the counter values turned into tokens, in order
    failStreak,         \* closures (while not stopped) since the last open
    lastOp              \* the handler that ran last, when it was the message
                        \* handler or stop(), and what it did

connVars == <<ws, stopped, echoCounter, reconnectAttempts, pending, socks,
              timers, retryTimers, httpUrl, calls, settled, assigned,
              failStreak, lastOp>>

VARIABLES
    \* the gateway
    activeConnections,  \* Map accountId -> connection; 0 when there is no entry
    conns,              \* the connections startAccount created, in order
    status              \* accountId -> the running / connected flags of its
                        \* runtime snapshot

gwVars == <<activeConnections, conns, status>>

VARIABLES
    \* the message codec
    message,            \* the `message` member of the event last parsed
    parsed              \* what parseOneBotMessage returned for it

codecVars == <<message, parsed>>

VARIABLES
    \* the inbound pipeline
    liveCfg,            \* dmPolicy and allowFrom of the account in the live
                        \* configuration
    account,            \* ctx.account.config as startAccount captured it
    edits,              \* configuration edits made so far
    allowStore,         \* the persisted allow-list store of the host
    pairingStore,       \* the pairing requests the host holds, by sender id
    handlers            \* the handlePrivateMessage invocations, in order of
                        \* arrival of their events

inVars == <<liveCfg, account, edits, allowStore, pairingStore, handlers>>

VARIABLES
    \* the outbound delivery
    delivery,           \* the deliver(payload) invocation
    outbox              \* the send_private_msg actions issued, in order:
                        \* their `message` parameters

outVars == <<delivery, outbox>>

\* the inbound pipeline and the outbound delivery
pipeVars == <<codecVars, inVars, outVars>>

vars == <<connVars, gwVars, pipeVars>>

\* --------------------------------------------------------------- helpers

Min(a, b) == IF a < b THEN a ELSE b

Pow2(n) == 2 ^ n

Restrict(f, S) == [x \in S |-> f[x]]

MapSet(f, k, v) == [x \in (DOMAIN f) \cup {k} |-> IF x = k THEN v ELSE f[x]]

MapDelete(f, k) == Restrict(f, (DOMAIN f) \ {k})

Digit == <<"0", "1", "2", "3", "4", "5", "6", "7", "8", "9">>

\* String(n) of a non-negative integer: its decimal digits
RECURSIVE StringOf(_)
StringOf(n) == IF n < 10 THEN Digit[n + 1]
               ELSE StringOf(n \div 10) \o Digit[(n % 10) + 1]

\* readyState of a socket of the ws library
CONNECTING == "CONNECTING"
OPEN == "OPEN"
CLOSING == "CLOSING"
CLOSED == "CLOSED"

\* const isConnected = () => ws?.readyState === WebSocket.OPEN
isConnected == ws # 0 /\ socks[ws] = OPEN

\* Error messages of the connection
ErrNotConnected == "WebSocket not connected"
ErrTimeout == "OneBot request timeout"
ErrClosed == "WebSocket closed"
ErrStopped == "WebSocket stopped"
ErrNoHttp == "HTTP fallback not configured"
\* What sendActionHttp gives its caller once fetch has completed
HttpResult == "http result"
ErrSend == "ws.send threw"

\* lastOp after any handler but the message handler and stop()
Other == [op |-> "other", info |-> ""]

\* One sendAction invocation.
\*   state   : idle (not called yet), ws (suspended on the socket request),
\*             http (suspended on fetch), done
\*   route   : the branch taken at `if (isConnected())`: "ws" or "http"
\*   token   : the echo assigned by sendActionWs, "" when none was
\*   wsError : why the socket path failed, "" when it has not
\*   http    : the action was issued over HTTP
\*   outcome : what the caller received
\*   got     : String(echo) of the frame the caller was resolved with
IdleCall == [state |-> "idle", route |-> "", token |-> "", wsError |-> "",
             http |-> FALSE, outcome |-> "", got |-> ""]

\* ------------------------------------------------- frames on the socket

\* The echo member of a received JSON object: absent, null, a number or a
\* string.
NoEcho == [t |-> "absent", n |-> 0, s |-> ""]

NumEchoes == {[t |-> "num", n |-> k, s |-> ""] : k \in 0..MaxCalls}

StrEchoes == {[t |-> "str", n |-> 0, s |-> StringOf(k)] : k \in 1..MaxCalls}

EchoValues ==
    {NoEcho, [t |-> "null", n |-> 0, s |-> ""]} \cup NumEchoes \cup StrEchoes

\* A received frame: text JSON.parse rejects, a JSON value that is no
\* object, or an object with or without post_type and echo.
Frames ==
    {[parse |-> "fail", post_type |-> FALSE, echo |-> NoEcho],
     [parse |-> "nonobject", post_type |-> FALSE, echo |-> NoEcho]}
    \cup {[parse |-> "object", post_type |-> FALSE, echo |-> e] :
              e \in EchoValues}
    \cup {[parse |-> "object", post_type |-> TRUE, echo |-> e] :
              e \in {NoEcho} \cup StrEchoes}

\* isEventPayload(payload)
isEventPayload(f) == f.parse = "object" /\ f.post_type

\* payload && typeof payload === "object" && "echo" in payload
hasEcho(f) == f.parse = "object" /\ f.echo.t # "absent"

\* String(payload.echo ?? "")
EchoKey(e) == CASE e.t = "num" -> StringOf(e.n)
                [] e.t = "str" -> e.s
                [] OTHER -> ""

\* ------------------------------------------- the pending-request table

\* The part of the state the settle paths work on.
Table == [pending |-> pending, timers |-> timers, settled |-> settled,
          calls |-> calls]

\* Variant: the catch block rethrows without trying HTTP.
Catch_Rethrow(call, reason) ==
    [call EXCEPT !.state = "done", !.wsError = reason, !.outcome = reason]

\* The catch block of sendAction, run for a call whose sendActionWs failed
\* with `reason`: HTTP when configured, else the error is rethrown.
Catch(call, reason) ==
    IF httpUrl
    THEN [call EXCEPT !.state = "http", !.wsError = reason, !.http = TRUE]
    ELSE [call EXCEPT !.state = "done", !.wsError = reason,
                      !.outcome = reason]

\* reject(new Error(reason)) of call c's promise: recorded, and the caller
\* continues in its catch block when it is still suspended on the promise.
Reject(cs, c, reason) ==
    [cs EXCEPT ![c] = IF cs[c].state = "ws" THEN Catch(cs[c], reason)
                      ELSE cs[c]]

\* resolve(payload) of call c's promise with a frame whose String(echo) is
\* key.
Resolve(cs, c, key) ==
    [cs EXCEPT ![c] = IF cs[c].state = "ws"
                      THEN [cs[c] EXCEPT !.state = "done",
                                         !.outcome = "response", !.got = key]
                      ELSE cs[c]]

\* Variant: the entries are rejected but stay in the table.
CleanupPending_NoDelete(T, reason) ==
    LET owners == {T.pending[e] : e \in DOMAIN T.pending}
    IN  [pending |-> T.pending,
         timers |-> Restrict(T.timers, (DOMAIN T.timers) \ owners),
         settled |-> [c \in DOMAIN T.settled |->
                         IF c \in owners THEN T.settled[c] + 1
                         ELSE T.settled[c]],
         calls |-> [c \in DOMAIN T.calls |->
                       IF c \in owners THEN Reject(T.calls, c, reason)[c]
                       ELSE T.calls[c]]]

\* cleanupPending(reason): every entry has its timer cleared, is rejected
\* and is deleted.
CleanupPending(T, reason) ==
    LET owners == {T.pending[e] : e \in DOMAIN T.pending}
    IN  [pending |-> Restrict(T.pending, {}),
         timers |-> Restrict(T.timers, (DOMAIN T.timers) \ owners),
         settled |-> [c \in DOMAIN T.settled |->
                         IF c \in owners THEN T.settled[c] + 1
                         ELSE T.settled[c]],
         calls |-> [c \in DOMAIN T.calls |->
                       IF c \in owners THEN Reject(T.calls, c, reason)[c]
                       ELSE T.calls[c]]]

\* Variant: the ceiling is not applied.
Backoff_NoCeiling(n) == RECONNECT_BASE_MS * Pow2(n)

\* Math.min(RECONNECT_BASE_MS * 2 ** reconnectAttempts, RECONNECT_MAX_MS)
Backoff(n) == Min(RECONNECT_BASE_MS * Pow2(n), RECONNECT_MAX_MS)

\* ------------------------------------------------------------------ Init

ConnInit ==
    /\ httpUrl \in BOOLEAN
    /\ stopped = FALSE
    /\ echoCounter = 0
    /\ reconnectAttempts = 0
    /\ pending = Restrict(<<>>, {})
    \* connect() runs in createOneBotConnection: the first socket exists
    /\ socks = [s \in 1..MaxSockets |-> IF s = 1 THEN CONNECTING ELSE CLOSED]
    /\ ws = 1
    /\ timers = Restrict(<<>>, {})
    /\ retryTimers = <<>>
    /\ calls = [c \in 1..MaxCalls |-> IdleCall]
    /\ settled = [c \in 1..MaxCalls |-> 0]
    /\ assigned = <<>>
    /\ failStreak = 0
    /\ lastOp = Other

\* -------------------------------------------------- connection handlers

\* new WebSocket(url): a socket that has emitted "close" is never heard of
\* again, so its slot is taken over.
FreeSlots == {s \in DOMAIN socks : socks[s] = CLOSED}

NewSocket == CHOOSE s \in FreeSlots : \A t \in FreeSlots : s <= t

\* Variant: connect() does not look at the stopped flag.
RetryFire_IgnoresStopped(i) ==
    /\ i \in DOMAIN retryTimers
    /\ FreeSlots # {}
    /\ retryTimers' = SubSeq(retryTimers, 1, i - 1)
                      \o SubSeq(retryTimers, i + 1, Len(retryTimers))
    /\ LET s == NewSocket
       IN  /\ socks' = [socks EXCEPT ![s] = CONNECTING]
           /\ ws' = s
    /\ lastOp' = Other
    /\ UNCHANGED <<gwVars, pipeVars>>
    /\ UNCHANGED <<stopped, echoCounter, reconnectAttempts, pending, timers,
                   httpUrl, calls, settled, assigned, failStreak>>

\* connect(), run by the reconnect timer i. The constructor's connect() is
\* in Init.
RetryFire(i) ==
    /\ i \in DOMAIN retryTimers
    /\ stopped \/ FreeSlots # {}
    /\ retryTimers' = SubSeq(retryTimers, 1, i - 1)
                      \o SubSeq(retryTimers, i + 1, Len(retryTimers))
    /\ IF stopped
       THEN UNCHANGED <<ws, socks>>
       ELSE LET s == NewSocket
            IN  /\ socks' = [socks EXCEPT ![s] = CONNECTING]
                /\ ws' = s
    /\ lastOp' = Other
    /\ UNCHANGED <<gwVars, pipeVars>>
    /\ UNCHANGED <<stopped, echoCounter, reconnectAttempts, pending, timers,
                   httpUrl, calls, settled, assigned, failStreak>>

\* Variant: the open handler also restarts the echo counter.
OnOpen_ResetsEcho(s) ==
    /\ s \in DOMAIN socks
    /\ socks[s] = CONNECTING
    /\ socks' = [socks EXCEPT ![s] = OPEN]
    /\ reconnectAttempts' = 0
    /\ echoCounter' = 0
    /\ failStreak' = 0
    /\ lastOp' = Other
    /\ UNCHANGED <<gwVars, pipeVars>>
    /\ UNCHANGED <<ws, stopped, pending, timers, retryTimers, httpUrl, calls,
                   settled, assigned>>

\* ws.on("open")
OnOpen(s) ==
    /\ s \in DOMAIN socks
    /\ socks[s] = CONNECTING
    /\ socks' = [socks EXCEPT ![s] = OPEN]
    /\ reconnectAttempts' = 0
    /\ failStreak' = 0
    /\ lastOp' = Other
    /\ UNCHANGED <<gwVars, pipeVars>>
    /\ UNCHANGED <<ws, stopped, echoCounter, pending, timers, retryTimers,
                   httpUrl, calls, settled, assigned>>

\* The table after the entry under echo is resolved with a frame whose
\* String(echo) is key: clearTimeout, pending.delete, resolve.
ResolveEntry(T, echo, key) ==
    LET c == T.pending[echo]
    IN  [pending |-> MapDelete(T.pending, echo),
         timers |-> MapDelete(T.timers, c),
         settled |-> [T.settled EXCEPT ![c] = @ + 1],
         calls |-> Resolve(T.calls, c, key)]

\* Variant: the frame resolves the oldest entry, whatever its echo.
OnMessageEffect_OldestEntry(T, f) ==
    IF f.parse = "fail" THEN [info |-> "parse_fail", table |-> T]
    ELSE IF isEventPayload(f) THEN [info |-> "event", table |-> T]
    ELSE IF ~hasEcho(f) THEN [info |-> "no_echo", table |-> T]
    ELSE IF DOMAIN T.pending = {} THEN [info |-> "no_match", table |-> T]
    ELSE LET c == CHOOSE x \in {T.pending[e] : e \in DOMAIN T.pending} :
                      \A e \in DOMAIN T.pending : x <= T.pending[e]
             first == CHOOSE e \in DOMAIN T.pending : T.pending[e] = c
         IN  [info |-> "resolved",
              table |-> ResolveEntry(T, first, EchoKey(f.echo))]

\* Variant: the entry's timer is left armed when the response arrives.
OnMessageEffect_TimerLeft(T, f) ==
    IF f.parse = "fail" THEN [info |-> "parse_fail", table |-> T]
    ELSE IF isEventPayload(f) THEN [info |-> "event", table |-> T]
    ELSE IF ~hasEcho(f) THEN [info |-> "no_echo", table |-> T]
    ELSE LET echo == EchoKey(f.echo)
         IN  IF echo \notin DOMAIN T.pending
             THEN [info |-> "no_match", table |-> T]
             ELSE [info |-> "resolved",
                   table |-> [ResolveEntry(T, echo, echo)
                                EXCEPT !.timers = T.timers]]

\* Variant: the echo is looked up before post_type is.
OnMessageEffect_EchoFirst(T, f) ==
    IF f.parse = "fail" THEN [info |-> "parse_fail", table |-> T]
    ELSE IF hasEcho(f) /\ EchoKey(f.echo) \in DOMAIN T.pending
    THEN [info |-> IF isEventPayload(f) THEN "event" ELSE "resolved",
          table |-> ResolveEntry(T, EchoKey(f.echo), EchoKey(f.echo))]
    ELSE IF isEventPayload(f) THEN [info |-> "event", table |-> T]
    ELSE IF ~hasEcho(f) THEN [info |-> "no_echo", table |-> T]
    ELSE [info |-> "no_match", table |-> T]

\* What the message handler does with frame f: its disposition and the
\* table afterwards.
OnMessageEffect(T, f) ==
    IF f.parse = "fail" THEN [info |-> "parse_fail", table |-> T]
    ELSE IF isEventPayload(f) THEN [info |-> "event", table |-> T]
    ELSE IF ~hasEcho(f) THEN [info |-> "no_echo", table |-> T]
    ELSE LET echo == EchoKey(f.echo)
         IN  IF echo \notin DOMAIN T.pending
             THEN [info |-> "no_match", table |-> T]
             ELSE [info |-> "resolved",
                   table |-> ResolveEntry(T, echo, echo)]

\* ws.on("message") of socket s, for a received frame f
OnMessage(s, f) ==
    /\ s \in DOMAIN socks
    /\ socks[s] \in {OPEN, CLOSING}
    /\ LET r == OnMessageEffect(Table, f)
       IN  /\ pending' = r.table.pending
           /\ timers' = r.table.timers
           /\ settled' = r.table.settled
           /\ calls' = r.table.calls
           /\ lastOp' = [op |-> "message", info |-> r.info]
    /\ UNCHANGED <<gwVars, pipeVars>>
    /\ UNCHANGED <<ws, stopped, echoCounter, reconnectAttempts, socks,
                   retryTimers, httpUrl, assigned, failStreak>>

\* ws.on("error"): only opts.onError runs
OnError(s) ==
    /\ s \in DOMAIN socks
    /\ socks[s] # CLOSED
    /\ lastOp' = Other
    /\ UNCHANGED <<gwVars, pipeVars>>
    /\ UNCHANGED <<ws, stopped, echoCounter, reconnectAttempts, pending,
                   socks, timers, retryTimers, httpUrl, calls, settled,
                   assigned, failStreak>>

\* The peer's close frame arrived: the ws library moves the socket to
\* CLOSING and emits "close" later.
PeerClosing(s) ==
    /\ s \in DOMAIN socks
    /\ socks[s] = OPEN
    /\ socks' = [socks EXCEPT ![s] = CLOSING]
    /\ lastOp' = Other
    /\ UNCHANGED <<gwVars, pipeVars>>
    /\ UNCHANGED <<ws, stopped, echoCounter, reconnectAttempts, pending,
                   timers, retryTimers, httpUrl, calls, settled, assigned,
                   failStreak>>

\* Variant: the retry is scheduled before opts.onDisconnected runs.
OnClose_TimerBeforeCallback(s, cbStop) ==
    /\ s \in DOMAIN socks
    /\ socks[s] # CLOSED
    /\ stopped \/ cbStop \/ reconnectAttempts < MaxAttempts
    /\ socks' = [socks EXCEPT ![s] = CLOSED]
    /\ ws' = 0
    /\ LET T1 == IF cbStop THEN CleanupPending(Table, ErrStopped) ELSE Table
           T2 == CleanupPending(T1, ErrClosed)
       IN  /\ stopped' = (stopped \/ cbStop)
           /\ pending' = T2.pending
           /\ timers' = T2.timers
           /\ settled' = T2.settled
           /\ calls' = T2.calls
           /\ IF stopped \/ reconnectAttempts >= MaxAttempts
              THEN UNCHANGED <<reconnectAttempts, retryTimers, failStreak>>
              ELSE /\ retryTimers' =
                          Append(retryTimers, Backoff(reconnectAttempts))
                   /\ reconnectAttempts' = reconnectAttempts + 1
                   /\ failStreak' = failStreak + 1
           /\ lastOp' = Other
    /\ UNCHANGED <<gwVars, pipeVars>>
    /\ UNCHANGED <<echoCounter, httpUrl, assigned>>

\* Variant: after two closures in a row no retry is scheduled.
OnClose_GivesUp(s, cbStop) ==
    /\ s \in DOMAIN socks
    /\ socks[s] # CLOSED
    /\ stopped \/ cbStop \/ reconnectAttempts < MaxAttempts
    /\ socks' = [socks EXCEPT ![s] = CLOSED]
    /\ ws' = 0
    /\ LET T1 == IF cbStop THEN CleanupPending(Table, ErrStopped) ELSE Table
           T2 == CleanupPending(T1, ErrClosed)
           isStopped == stopped \/ cbStop
       IN  /\ stopped' = isStopped
           /\ pending' = T2.pending
           /\ timers' = T2.timers
           /\ settled' = T2.settled
           /\ calls' = T2.calls
           /\ IF isStopped \/ reconnectAttempts >= 2
              THEN UNCHANGED <<reconnectAttempts, retryTimers, failStreak>>
              ELSE /\ retryTimers' =
                          Append(retryTimers, Backoff(reconnectAttempts))
                   /\ reconnectAttempts' = reconnectAttempts + 1
                   /\ failStreak' = failStreak + 1
           /\ lastOp' = Other
    /\ UNCHANGED <<gwVars, pipeVars>>
    /\ UNCHANGED <<echoCounter, httpUrl, assigned>>

\* Variant: the close handler leaves the table alone unless the
\* disconnected callback called stop().
OnClose_KeepsTable(s, cbStop) ==
    /\ s \in DOMAIN socks
    /\ socks[s] # CLOSED
    /\ stopped \/ cbStop \/ reconnectAttempts < MaxAttempts
    /\ socks' = [socks EXCEPT ![s] = CLOSED]
    /\ ws' = 0
    /\ LET T1 == IF cbStop THEN CleanupPending(Table, ErrStopped) ELSE Table
           isStopped == stopped \/ cbStop
       IN  /\ stopped' = isStopped
           /\ pending' = T1.pending
           /\ timers' = T1.timers
           /\ settled' = T1.settled
           /\ calls' = T1.calls
           /\ IF isStopped
              THEN UNCHANGED <<reconnectAttempts, retryTimers, failStreak>>
              ELSE /\ retryTimers' =
                          Append(retryTimers, Backoff(reconnectAttempts))
                   /\ reconnectAttempts' = reconnectAttempts + 1
                   /\ failStreak' = failStreak + 1
           /\ lastOp' = Other
    /\ UNCHANGED <<gwVars, pipeVars>>
    /\ UNCHANGED <<echoCounter, httpUrl, assigned>>

\* ws.on("close") of socket s. cbStop: opts.onDisconnected calls stop().
OnClose(s, cbStop) ==
    /\ s \in DOMAIN socks
    /\ socks[s] # CLOSED
    /\ stopped \/ cbStop \/ reconnectAttempts < MaxAttempts
    /\ socks' = [socks EXCEPT ![s] = CLOSED]
    /\ ws' = 0
    /\ LET T1 == IF cbStop THEN CleanupPending(Table, ErrStopped) ELSE Table
           T2 == CleanupPending(T1, ErrClosed)
           isStopped == stopped \/ cbStop
       IN  /\ stopped' = isStopped
           /\ pending' = T2.pending
           /\ timers' = T2.timers
           /\ settled' = T2.settled
           /\ calls' = T2.calls
           /\ IF isStopped
              THEN UNCHANGED <<reconnectAttempts, retryTimers, failStreak>>
              ELSE /\ retryTimers' =
                          Append(retryTimers, Backoff(reconnectAttempts))
                   /\ reconnectAttempts' = reconnectAttempts + 1
                   /\ failStreak' = failStreak + 1
           /\ lastOp' = Other
    /\ UNCHANGED <<gwVars, pipeVars>>
    /\ UNCHANGED <<echoCounter, httpUrl, assigned>>

\* The request timer of call c fires.
OnTimeout(c) ==
    /\ c \in DOMAIN timers
    /\ timers' = MapDelete(timers, c)
    /\ pending' = MapDelete(pending, calls[c].token)
    /\ settled' = [settled EXCEPT ![c] = @ + 1]
    /\ calls' = Reject(calls, c, ErrTimeout)
    /\ lastOp' = Other
    /\ UNCHANGED <<gwVars, pipeVars>>
    /\ UNCHANGED <<ws, stopped, echoCounter, reconnectAttempts, socks,
                   retryTimers, httpUrl, assigned, failStreak>>

\* sendActionWs up to its return, for call c. sendThrows: the statement
\* ws.send(JSON.stringify(payload)) throws.
SendActionWs(c, sendThrows) ==
    IF ws = 0 \/ socks[ws] # OPEN
    THEN /\ calls' = [calls EXCEPT
                        ![c] = Catch([@ EXCEPT !.route = "ws"],
                                     ErrNotConnected)]
         /\ lastOp' = Other
         /\ UNCHANGED <<echoCounter, pending, timers, settled, assigned>>
    ELSE LET n == echoCounter + 1
             echo == StringOf(n)
             call == [calls[c] EXCEPT !.route = "ws", !.token = echo]
         IN  /\ echoCounter' = n
             /\ assigned' = Append(assigned, n)
             /\ timers' = MapSet(timers, c, REQUEST_TIMEOUT_MS)
             /\ pending' = MapSet(pending, echo, c)
             /\ calls' = [calls EXCEPT
                            ![c] = IF sendThrows THEN Catch(call, ErrSend)
                                   ELSE [call EXCEPT !.state = "ws"]]
             /\ lastOp' = Other
             /\ UNCHANGED settled

\* sendActionHttp up to its fetch, called by sendAction outside the try.
SendActionHttp(c) ==
    /\ calls' = [calls EXCEPT
                   ![c] = IF httpUrl
                          THEN [@ EXCEPT !.route = "http", !.state = "http",
                                         !.http = TRUE]
                          ELSE [@ EXCEPT !.route = "http", !.state = "done",
                                         !.outcome = ErrNoHttp]]
    /\ lastOp' = Other
    /\ UNCHANGED <<echoCounter, pending, timers, settled, assigned>>

\* sendAction(action, params), invocation number c
SendAction(c, sendThrows) ==
    /\ c \in 1..MaxCalls
    /\ calls[c].state = "idle"
    /\ \A d \in 1..(c - 1) : calls[d].state # "idle"
    /\ IF isConnected THEN SendActionWs(c, sendThrows)
       ELSE ~sendThrows /\ SendActionHttp(c)
    /\ UNCHANGED <<gwVars, pipeVars>>
    /\ UNCHANGED <<ws, stopped, reconnectAttempts, socks, retryTimers,
                   httpUrl, failStreak>>

\* The fetch of call c completes and sendActionHttp returns the parsed body
\* or throws on a status that is not ok: either way the caller has the
\* result of the HTTP transport.
HttpDone(c) ==
    /\ c \in 1..MaxCalls
    /\ calls[c].state = "http"
    /\ calls' = [calls EXCEPT ![c] = [@ EXCEPT !.state = "done",
                                                !.outcome = HttpResult]]
    /\ lastOp' = Other
    /\ UNCHANGED <<gwVars, pipeVars>>
    /\ UNCHANGED <<ws, stopped, echoCounter, reconnectAttempts, pending,
                   socks, timers, retryTimers, httpUrl, settled, assigned,
                   failStreak>>

\* stop()
Stop ==
    /\ stopped' = TRUE
    /\ LET T1 == CleanupPending(Table, ErrStopped)
       IN  /\ pending' = T1.pending
           /\ timers' = T1.timers
           /\ settled' = T1.settled
           /\ calls' = T1.calls
    \* ws?.close()
    /\ socks' = IF ws # 0 /\ socks[ws] \in {CONNECTING, OPEN}
                THEN [socks EXCEPT ![ws] = CLOSING] ELSE socks
    /\ ws' = 0
    /\ lastOp' = [op |-> "stop", info |-> IF stopped THEN "again" ELSE "first"]
    /\ UNCHANGED <<gwVars, pipeVars>>
    /\ UNCHANGED <<echoCounter, reconnectAttempts, retryTimers, httpUrl,
                   assigned, failStreak>>

ConnNext ==
    \/ \E i \in 1..MaxAttempts : RetryFire(i)
    \/ \E s \in 1..MaxSockets : OnOpen(s)
    \/ \E s \in 1..MaxSockets, f \in Frames : OnMessage(s, f)
    \/ \E s \in 1..MaxSockets : OnError(s)
    \/ \E s \in 1..MaxSockets : PeerClosing(s)
    \/ \E s \in 1..MaxSockets, cbStop \in BOOLEAN : OnClose(s, cbStop)
    \/ \E c \in 1..MaxCalls : OnTimeout(c)
    \/ \E c \in 1..MaxCalls, sendThrows \in BOOLEAN : SendAction(c, sendThrows)
    \/ \E c \in 1..MaxCalls : HttpDone(c)
    \/ Stop

\* ------------------------------------------------------------ the gateway

\* Account identifiers, and those whose resolved account has a wsUrl
Accounts == {"default", "work"}

Configured == {"default", "work"}

GwInit ==
    /\ activeConnections = [a \in Accounts |-> 0]
    /\ conns = <<>>
    /\ status = [a \in Accounts |-> [running |-> FALSE, connected |-> FALSE]]

\* connection.stop() as the gateway sees it: the connection is stopped for
\* good; its socket, when open, emits "close" later.
StopConn(cs, i) == [cs EXCEPT ![i].stopped = TRUE]

\* updateStatus(next) / ctx.setStatus({...ctx.getStatus(), ...next})
UpdateStatus(st, a, next) ==
    [st EXCEPT ![a] = [f \in DOMAIN st[a] |->
                          IF f \in DOMAIN next THEN next[f] ELSE st[a][f]]]

\* gateway.startAccount(ctx) for account a
StartAccount(a) ==
    /\ a \in Configured
    /\ Len(conns) < MaxConns
    \* createOneBotConnection(...)
    /\ conns' = Append(conns, [account |-> a, stopped |-> FALSE,
                               open |-> FALSE, aborted |-> FALSE])
    \* activeConnections.set(account.accountId, connection)
    /\ activeConnections' = [activeConnections EXCEPT ![a] = Len(conns) + 1]
    /\ status' = UpdateStatus(status, a,
                              [running |-> TRUE, connected |-> FALSE])
    /\ UNCHANGED <<connVars, pipeVars>>

\* The stop handle startAccount returned for connection i
StopHandle(i) ==
    /\ i \in DOMAIN conns
    /\ conns' = StopConn(conns, i)
    \* activeConnections.delete(account.accountId)
    /\ activeConnections' = [activeConnections EXCEPT ![conns[i].account] = 0]
    /\ status' = UpdateStatus(status, conns[i].account,
                              [running |-> FALSE, connected |-> FALSE])
    /\ UNCHANGED <<connVars, pipeVars>>

\* gateway.stopAccount(ctx) for account a
StopAccount(a) ==
    /\ a \in Accounts
    /\ LET i == activeConnections[a]
       IN  IF i # 0
           THEN /\ conns' = StopConn(conns, i)
                /\ activeConnections' = [activeConnections EXCEPT ![a] = 0]
           ELSE UNCHANGED <<conns, activeConnections>>
    /\ status' = UpdateStatus(status, a,
                              [running |-> FALSE, connected |-> FALSE])
    /\ UNCHANGED <<connVars, pipeVars>>

\* ctx.abortSignal fires for the start that created connection i; the
\* listener is registered with once: true.
Abort(i) ==
    /\ i \in DOMAIN conns
    /\ ~conns[i].aborted
    /\ conns' = [StopConn(conns, i) EXCEPT ![i].aborted = TRUE]
    /\ UNCHANGED <<activeConnections, status, connVars, pipeVars>>

\* onConnected of connection i
GwConnected(i) ==
    /\ i \in DOMAIN conns
    /\ ~conns[i].stopped /\ ~conns[i].open
    /\ conns' = [conns EXCEPT ![i].open = TRUE]
    /\ status' = UpdateStatus(status, conns[i].account, [connected |-> TRUE])
    /\ UNCHANGED <<activeConnections, connVars, pipeVars>>

\* onDisconnected of connection i
GwDisconnected(i) ==
    /\ i \in DOMAIN conns
    /\ conns[i].open
    /\ conns' = [conns EXCEPT ![i].open = FALSE]
    /\ status' = UpdateStatus(status, conns[i].account, [connected |-> FALSE])
    /\ UNCHANGED <<activeConnections, connVars, pipeVars>>

GwNext ==
    \/ \E a \in Accounts : StartAccount(a)
    \/ \E i \in 1..MaxConns : StopHandle(i)
    \/ \E a \in Accounts : StopAccount(a)
    \/ \E i \in 1..MaxConns : Abort(i)
    \/ \E i \in 1..MaxConns : GwConnected(i)
    \/ \E i \in 1..MaxConns : GwDisconnected(i)

\* ------------------------------------------------------------- strings

\* A string of the message pipeline is the sequence of its lexemes:
\* "https://x/y.png" is <<"https:", "//", "x/y.png">>, "qq:123" is
\* <<"qq:", "123">>, the empty string is <<>>.
Blank == " "

\* value.trim(): leading and trailing white space removed
RECURSIVE TrimLeft(_)
TrimLeft(s) == IF s # <<>> /\ Head(s) = Blank THEN TrimLeft(Tail(s)) ELSE s

RECURSIVE TrimRight(_)
TrimRight(s) == IF s # <<>> /\ s[Len(s)] = Blank
                THEN TrimRight(SubSeq(s, 1, Len(s) - 1)) ELSE s

Trim(s) == TrimRight(TrimLeft(s))

\* parts.join("")
RECURSIVE Join(_)
Join(parts) == IF parts = <<>> THEN <<>> ELSE Head(parts) \o Join(Tail(parts))

\* A member of a JSON object as JavaScript sees it: undefined (absent), null,
\* a number, or a string s.
Undef == [t |-> "undef", s |-> <<>>]

Null == [t |-> "null", s |-> <<>>]

Num == [t |-> "num", s |-> <<>>]

StrVal(s) == [t |-> "str", s |-> s]

\* a ?? b
Coalesce(a, b) == IF a.t \in {"undef", "null"} THEN b ELSE a

\* ------------------------------------------------------ the message codec

\* Lexemes that /^(https?|file|base64):/i accepts as the start of a string
SchemeLexemes == {"http:", "https:", "HTTPS:", "file:", "base64:"}

\* isLikelyMediaRef(value)
isLikelyMediaRef(value) ==
    LET trimmed == Trim(value)
    IN  IF trimmed = <<>> THEN FALSE
        ELSE IF Head(trimmed) \in SchemeLexemes THEN TRUE
        ELSE IF Head(trimmed) \in {"/", "//"} THEN TRUE
        ELSE IF /\ Head(trimmed) \in {"C:", "d:"}
                /\ Len(trimmed) > 1
                /\ trimmed[2] \in {"\\", "/", "//"} THEN TRUE
        ELSE FALSE

\* The accumulators of parseOneBotMessage
NoParts == [textParts |-> <<>>, mediaUrls |-> <<>>, mediaTypes |-> <<>>]

MediaSegmentTypes == {"image", "record", "video"}

\* Variant: the segment type is pushed as the kind, record included.
ParseSegment_RawKind(acc, typed) ==
    IF typed.type = "text"
    THEN IF typed.text.t = "str"
         THEN [acc EXCEPT !.textParts = Append(@, typed.text.s)]
         ELSE acc
    ELSE IF typed.type \in MediaSegmentTypes
    THEN LET url == Coalesce(typed.url, Coalesce(typed.file, StrVal(<<>>)))
         IN  IF url.t = "str" /\ isLikelyMediaRef(url.s)
             THEN [acc EXCEPT !.mediaUrls = Append(@, url.s),
                              !.mediaTypes = Append(@, typed.type)]
             ELSE acc
    ELSE acc

\* One round of the loop `for (const segment of message)`
ParseSegment(acc, typed) ==
    IF typed.type = "text"
    THEN IF typed.text.t = "str"
         THEN [acc EXCEPT !.textParts = Append(@, typed.text.s)]
         ELSE acc
    ELSE IF typed.type \in MediaSegmentTypes
    THEN LET url == Coalesce(typed.url, Coalesce(typed.file, StrVal(<<>>)))
         IN  IF url.t = "str" /\ isLikelyMediaRef(url.s)
             THEN [acc EXCEPT
                     !.mediaUrls = Append(@, url.s),
                     !.mediaTypes =
                         Append(@, IF typed.type = "record" THEN "audio"
                                   ELSE IF typed.type = "video" THEN "video"
                                   ELSE "image")]
             ELSE acc
    ELSE acc

RECURSIVE ParseSegments(_, _)
ParseSegments(acc, segs) ==
    IF segs = <<>> THEN acc
    ELSE ParseSegments(ParseSegment(acc, Head(segs)), Tail(segs))

\* The `message` member of an event: a string, an array of segments, or
\* anything else (absent, a number, an object).
StringMessage(s) == [kind |-> "string", s |-> s, segs |-> <<>>]

ArrayMessage(segs) == [kind |-> "array", s |-> <<>>, segs |-> segs]

OtherMessage == [kind |-> "other", s |-> <<>>, segs |-> <<>>]

\* parseOneBotMessage(message)
parseOneBotMessage(m) ==
    LET acc == IF m.kind = "string"
               THEN [NoParts EXCEPT !.textParts = <<m.s>>]
               ELSE IF m.kind = "array" THEN ParseSegments(NoParts, m.segs)
               ELSE NoParts
    IN  [text |-> Join(acc.textParts),
         mediaUrls |-> acc.mediaUrls,
         mediaTypes |-> acc.mediaTypes]

\* Values of a segment's data.url and data.file
HttpsRef == <<"https:", "//", "x/y.png">>

UrlValues == {Undef, Null, Num, StrVal(<<>>), StrVal(HttpsRef),
              StrVal(<<"foo.jpg">>)}

FileValues == {Undef, StrVal(HttpsRef), StrVal(<<"foo.jpg">>)}

\* Segments as they arrive on the wire
Segments ==
    {[type |-> "text", text |-> t, url |-> Undef, file |-> Undef] :
         t \in {Undef, StrVal(<<"hi">>), StrVal(<<"yo">>)}}
    \cup {[type |-> ty, text |-> Undef, url |-> u, file |-> f] :
              ty \in MediaSegmentTypes, u \in UrlValues, f \in FileValues}
    \cup {[type |-> "face", text |-> Undef, url |-> Undef,
           file |-> StrVal(HttpsRef)]}

CodecInit ==
    /\ message = OtherMessage
    /\ parsed = parseOneBotMessage(OtherMessage)

\* parseOneBotMessage on a message that is a plain string
ParseString(s) ==
    /\ message = OtherMessage
    /\ message' = StringMessage(s)
    /\ parsed' = parseOneBotMessage(message')
    /\ UNCHANGED <<connVars, gwVars, inVars, outVars>>

\* parseOneBotMessage on the array message with one more segment
ParseArray(seg) ==
    /\ message.kind # "string"
    /\ Len(message.segs) < MaxSegs
    /\ message' = ArrayMessage(Append(message.segs, seg))
    /\ parsed' = parseOneBotMessage(message')
    /\ UNCHANGED <<connVars, gwVars, inVars, outVars>>

CodecNext ==
    \/ \E s \in {<<>>, <<"hi">>, <<"[CQ:image,file=a.png]">>} : ParseString(s)
    \/ \E seg \in Segments : ParseArray(seg)

\* --------------------------------------------------- the access policy

\* Lexemes that /^(qq|user):/i removes from the start of a string
PrefixLexemes == {"qq:", "user:", "QQ:", "User:"}

\* normalizeAllowEntry(entry), entry being String(entry) already
normalizeAllowEntry(entry) ==
    LET value == Trim(entry)
    IN  IF value = <<>> THEN <<>>
        ELSE IF value = <<"*">> THEN <<"*">>
        ELSE IF Head(value) \in PrefixLexemes THEN Tail(value)
        ELSE value

\* normalizeAllowList(entries): the normalized entries that are not empty,
\* without duplicates. Only membership is ever asked of the result.
normalizeAllowList(entries) ==
    {normalizeAllowEntry(entries[i]) : i \in DOMAIN entries} \ {<<>>}

\* Variant: the wildcard entry is not honoured.
isSenderAllowed_NoWildcard(senderId, allowFrom) ==
    normalizeAllowEntry(senderId) \in allowFrom

\* isSenderAllowed(senderId, allowFrom)
isSenderAllowed(senderId, allowFrom) ==
    LET normalized == normalizeAllowEntry(senderId)
    IN  IF <<"*">> \in allowFrom THEN TRUE
        ELSE normalized \in allowFrom

\* ------------------------------------------------- the inbound pipeline

\* QQ identifiers: two users and the bot itself
Alice == <<"123">>

Bob == <<"456">>

SelfId == <<"999">>

Senders == {Alice, Bob}

\* event.user_id when the event has none
NoUser == <<>>

\* Events handed to onEvent. post_type "" stands for a post_type that is
\* no string; every event carries self_id.
MessageEvent(u, m) ==
    [post_type |-> "message", message_type |-> "private", user_id |-> u,
     self_id |-> SelfId, message |-> m]

ImageOnly ==
    ArrayMessage(<<[type |-> "image", text |-> Undef,
                    url |-> StrVal(HttpsRef), file |-> Undef]>>)

Hi == StringMessage(<<"hi">>)

Events ==
    {MessageEvent(u, Hi) : u \in Senders \cup {SelfId, NoUser}}
    \cup {MessageEvent(Alice, ImageOnly)}
    \cup {[MessageEvent(Alice, Hi) EXCEPT !.post_type = pt] :
              pt \in {"notice", ""}}
    \cup {[MessageEvent(Alice, Hi) EXCEPT !.message_type = "group"]}

\* dmPolicy / allowFrom of an account's configuration; dmPolicy "" is an
\* absent dmPolicy.
DefaultConfig == [dmPolicy |-> "", allowFrom |-> <<>>]

Configs ==
    {DefaultConfig,
     [dmPolicy |-> "open", allowFrom |-> <<<<"qq:", "123">>>>],
     [dmPolicy |-> "allowlist", allowFrom |-> <<<<"qq:", "123">>>>],
     [dmPolicy |-> "allowlist", allowFrom |-> <<<<"*">>>>],
     [dmPolicy |-> "pairing", allowFrom |-> <<>>],
     [dmPolicy |-> "pairing", allowFrom |-> <<<<" ", "user:", "123">>>>],
     [dmPolicy |-> "disabled", allowFrom |-> <<<<"123">>>>]}

\* One handlePrivateMessage invocation.
\*   pc            : read (awaiting readAllowFromStore), upsert (awaiting
\*                   upsertPairingRequest), reply (awaiting sendNapcatText),
\*                   record (awaiting recordInboundSession), dispatch
\*                   (awaiting dispatchReplyFromConfig), done
\*   dmPolicy, configAllowFrom : as read at lines 312-313, "" / {} before
\*   stored        : what the read of the allow-list store gave: "" (not read
\*                   yet), "ok", "failed"
\*   senderAllowed, commandAuthorized : as computed at lines 318-319
\*   decision      : "" (none yet), ignored (filtered out), drop, pairing,
\*                   dispatch
\*   upserts, replies, records, dispatches, statusUpdates : how often the
\*                   invocation called upsertPairingRequest, sendNapcatText,
\*                   recordInboundSession, dispatchReplyFromConfig and the
\*                   status sink
\*   body          : combinedText handed to the envelope
\*   threw         : the invocation ended by throwing
NewHandler(e) ==
    [event |-> e, pc |-> "done", dmPolicy |-> "", configAllowFrom |-> {},
     stored |-> "", senderAllowed |-> FALSE, commandAuthorized |-> FALSE,
     decision |-> "ignored", upserts |-> 0, replies |-> 0, records |-> 0,
     dispatches |-> 0, statusUpdates |-> 0, body |-> <<>>, threw |-> FALSE]

\* Nothing received yet, the account started with configuration c
InStarted(c) ==
    /\ liveCfg = c
    /\ account = c
    /\ edits = 0
    /\ allowStore = <<>>
    /\ pairingStore = <<>>
    /\ handlers = <<>>

InInit ==
    /\ liveCfg = DefaultConfig
    /\ account = DefaultConfig
    /\ edits = 0
    /\ allowStore = <<>>
    /\ pairingStore = <<>>
    /\ handlers = <<>>

\* describeMediaSummary(mediaTypes)
describeMediaSummary(mediaTypes) ==
    IF mediaTypes = <<>> THEN <<>>
    ELSE LET unique == {mediaTypes[i] : i \in DOMAIN mediaTypes}
         IN  IF Cardinality(unique) = 1
             THEN IF Len(mediaTypes) = 1
                  THEN <<"sent a ", mediaTypes[1], " attachment">>
                  ELSE <<"sent ", StringOf(Len(mediaTypes)), " ",
                         mediaTypes[1], " attachments">>
             ELSE <<"sent media attachments">>

\* a || b on strings
OrElse(a, b) == IF a # <<>> THEN a ELSE b

\* Variant: the self-message test is missing.
Filter_NoSelfTest(e) ==
    IF e.post_type # "message" THEN FALSE
    ELSE IF e.message_type # "private" THEN FALSE
    ELSE IF e.user_id = NoUser THEN FALSE
    ELSE TRUE

\* Lines 275-291: TRUE when the event gets past the returns
Filter(e) ==
    IF e.post_type # "message" THEN FALSE
    ELSE IF e.message_type # "private" THEN FALSE
    ELSE IF e.user_id = NoUser THEN FALSE
    ELSE IF e.self_id = e.user_id THEN FALSE
    ELSE TRUE

\* handlePrivateMessage from its start to its first await (line 315), for
\* event e with the account the closure holds
Start(e, acct) ==
    IF ~Filter(e) THEN NewHandler(e)
    ELSE LET parsedMessage == parseOneBotMessage(e.message)
             bodyText == Trim(parsedMessage.text)
             mediaSummary == IF bodyText # <<>> THEN <<>>
                             ELSE describeMediaSummary(parsedMessage.mediaTypes)
         IN  [NewHandler(e) EXCEPT
                !.pc = "read",
                !.decision = "",
                !.body = OrElse(bodyText, mediaSummary),
                !.dmPolicy = IF acct.dmPolicy = "" THEN "open"
                             ELSE acct.dmPolicy,
                !.configAllowFrom = normalizeAllowList(acct.allowFrom)]

\* Variant: a sender who already has a pairing request is dropped under
\* every policy but open.
AccessCheck_PendingRequestDrops(h, storedAllowFrom, ok) ==
    LET effectiveAllowFrom == h.configAllowFrom \cup storedAllowFrom
        senderAllowed == isSenderAllowed(h.event.user_id, effectiveAllowFrom)
        k == [h EXCEPT !.stored = IF ok THEN "ok" ELSE "failed",
                       !.senderAllowed = senderAllowed,
                       !.commandAuthorized =
                           h.dmPolicy = "open" \/ senderAllowed]
        requested == \E j \in DOMAIN pairingStore :
                         pairingStore[j] = h.event.user_id
    IN  IF h.dmPolicy = "disabled"
        THEN [k EXCEPT !.pc = "done", !.decision = "drop"]
        ELSE IF h.dmPolicy # "open" /\ (~senderAllowed \/ requested)
        THEN IF h.dmPolicy = "pairing" /\ ~senderAllowed
             THEN [k EXCEPT !.pc = "upsert", !.decision = "pairing",
                            !.upserts = @ + 1]
             ELSE [k EXCEPT !.pc = "done", !.decision = "drop"]
        ELSE [k EXCEPT !.pc = "record", !.decision = "dispatch",
                       !.records = @ + 1]

\* Variant: the disabled policy is tested after the pairing flow.
AccessCheck_DisabledLast(h, storedAllowFrom, ok) ==
    LET effectiveAllowFrom == h.configAllowFrom \cup storedAllowFrom
        senderAllowed == isSenderAllowed(h.event.user_id, effectiveAllowFrom)
        k == [h EXCEPT !.stored = IF ok THEN "ok" ELSE "failed",
                       !.senderAllowed = senderAllowed,
                       !.commandAuthorized =
                           h.dmPolicy = "open" \/ senderAllowed]
    IN  IF h.dmPolicy # "open" /\ ~senderAllowed
        THEN IF h.dmPolicy \in {"pairing", "disabled"}
             THEN [k EXCEPT !.pc = "upsert", !.decision = "pairing",
                            !.upserts = @ + 1]
             ELSE [k EXCEPT !.pc = "done", !.decision = "drop"]
        ELSE IF h.dmPolicy = "disabled"
        THEN [k EXCEPT !.pc = "done", !.decision = "drop"]
        ELSE [k EXCEPT !.pc = "record", !.decision = "dispatch",
                       !.records = @ + 1]

\* handlePrivateMessage from the result of readAllowFromStore (line 315) to
\* its next await: upsertPairingRequest (line 324) or recordInboundSession
\* (line 395). ok: the read succeeded; otherwise .catch(() => []) applies.
AccessCheck(h, storedAllowFrom, ok) ==
    LET effectiveAllowFrom == h.configAllowFrom \cup storedAllowFrom
        senderAllowed == isSenderAllowed(h.event.user_id, effectiveAllowFrom)
        k == [h EXCEPT !.stored = IF ok THEN "ok" ELSE "failed",
                       !.senderAllowed = senderAllowed,
                       !.commandAuthorized =
                           h.dmPolicy = "open" \/ senderAllowed]
    IN  IF h.dmPolicy = "disabled"
        THEN [k EXCEPT !.pc = "done", !.decision = "drop"]
        ELSE IF h.dmPolicy # "open" /\ ~senderAllowed
        THEN IF h.dmPolicy = "pairing"
             THEN [k EXCEPT !.pc = "upsert", !.decision = "pairing",
                            !.upserts = @ + 1]
             ELSE [k EXCEPT !.pc = "done", !.decision = "drop"]
        ELSE [k EXCEPT !.pc = "record", !.decision = "dispatch",
                       !.records = @ + 1]

\* core.channel.pairing.upsertPairingRequest of the host: one request per
\* sender id; created tells whether this call made it.
upsertPairingRequest(store, id) ==
    IF \E j \in DOMAIN store : store[j] = id
    THEN [store |-> store, created |-> FALSE]
    ELSE [store |-> Append(store, id), created |-> TRUE]

\* Variant: the pairing reply is sent whether or not the request is new.
AfterUpsert_AlwaysReplies(h, created) ==
    [h EXCEPT !.pc = "reply", !.replies = @ + 1]

\* Lines 329-343 up to the await of sendNapcatText
AfterUpsert(h, created) ==
    IF created THEN [h EXCEPT !.pc = "reply", !.replies = @ + 1]
    ELSE [h EXCEPT !.pc = "done"]

\* onEvent(event): handlePrivateMessage is called with the account of the
\* closure and runs to its first await.
Receive(e) ==
    /\ Len(handlers) < MaxEvents
    /\ handlers' = Append(handlers, Start(e, account))
    /\ UNCHANGED <<liveCfg, account, edits, allowStore, pairingStore>>
    /\ UNCHANGED <<connVars, gwVars, codecVars, outVars>>

\* readAllowFromStore settles for invocation i.
StoreRead(i, ok) ==
    /\ i \in DOMAIN handlers
    /\ handlers[i].pc = "read"
    \* a failed read of an empty store gives what a successful one gives
    /\ ok \/ allowStore # <<>>
    /\ LET storedAllowFrom == IF ok THEN normalizeAllowList(allowStore)
                              ELSE {}
       IN  handlers' = [handlers EXCEPT
                          ![i] = AccessCheck(@, storedAllowFrom, ok)]
    /\ UNCHANGED <<liveCfg, account, edits, allowStore, pairingStore>>
    /\ UNCHANGED <<connVars, gwVars, codecVars, outVars>>

\* upsertPairingRequest settles for invocation i.
UpsertDone(i) ==
    /\ i \in DOMAIN handlers
    /\ handlers[i].pc = "upsert"
    /\ LET r == upsertPairingRequest(pairingStore, handlers[i].event.user_id)
       IN  /\ pairingStore' = r.store
           /\ handlers' = [handlers EXCEPT ![i] = AfterUpsert(@, r.created)]
    /\ UNCHANGED <<liveCfg, account, edits, allowStore>>
    /\ UNCHANGED <<connVars, gwVars, codecVars, outVars>>

\* sendNapcatText of the pairing reply settles for invocation i: the status
\* sink is told, or the error leaves handlePrivateMessage.
ReplyDone(i, ok) ==
    /\ i \in DOMAIN handlers
    /\ handlers[i].pc = "reply"
    /\ handlers' = [handlers EXCEPT
                      ![i] = IF ok
                             THEN [@ EXCEPT !.pc = "done",
                                            !.statusUpdates = @ + 1]
                             ELSE [@ EXCEPT !.pc = "done", !.threw = TRUE]]
    /\ UNCHANGED <<liveCfg, account, edits, allowStore, pairingStore>>
    /\ UNCHANGED <<connVars, gwVars, codecVars, outVars>>

\* recordInboundSession settles for invocation i: the status sink is told
\* and dispatchReplyFromConfig is called.
RecordDone(i) ==
    /\ i \in DOMAIN handlers
    /\ handlers[i].pc = "record"
    /\ handlers' = [handlers EXCEPT
                      ![i] = [@ EXCEPT !.pc = "dispatch",
                                       !.statusUpdates = @ + 1,
                                       !.dispatches = @ + 1]]
    /\ UNCHANGED <<liveCfg, account, edits, allowStore, pairingStore>>
    /\ UNCHANGED <<connVars, gwVars, codecVars, outVars>>

\* dispatchReplyFromConfig settles for invocation i; markDispatchIdle().
DispatchDone(i) ==
    /\ i \in DOMAIN handlers
    /\ handlers[i].pc = "dispatch"
    /\ handlers' = [handlers EXCEPT ![i].pc = "done"]
    /\ UNCHANGED <<liveCfg, account, edits, allowStore, pairingStore>>
    /\ UNCHANGED <<connVars, gwVars, codecVars, outVars>>

\* dmPolicy / allowFrom of the account are edited in the configuration.
EditConfig(c) ==
    /\ edits < MaxEdits
    /\ c # liveCfg
    /\ liveCfg' = c
    /\ edits' = edits + 1
    /\ UNCHANGED <<account, allowStore, pairingStore, handlers>>
    /\ UNCHANGED <<connVars, gwVars, codecVars, outVars>>

\* The account is started again: startAccount's `const account =
\* ctx.account` takes the account resolved from the configuration of that
\* moment, and the new connection's onEvent closes over it.
Restart ==
    /\ account # liveCfg
    /\ account' = liveCfg
    /\ UNCHANGED <<liveCfg, edits, allowStore, pairingStore, handlers>>
    /\ UNCHANGED <<connVars, gwVars, codecVars, outVars>>

\* The host approves sender s: s enters the persisted allow-list store and
\* its pairing request, if any, is gone.
Approve(s) ==
    /\ \A j \in DOMAIN allowStore : allowStore[j] # s
    /\ allowStore' = Append(allowStore, s)
    /\ pairingStore' = SelectSeq(pairingStore, LAMBDA x : x # s)
    /\ UNCHANGED <<liveCfg, account, edits, handlers>>
    /\ UNCHANGED <<connVars, gwVars, codecVars, outVars>>

HandlerNext ==
    \/ \E e \in Events : Receive(e)
    \/ \E i \in 1..MaxEvents, ok \in BOOLEAN : StoreRead(i, ok)
    \/ \E i \in 1..MaxEvents : UpsertDone(i)
    \/ \E i \in 1..MaxEvents, ok \in BOOLEAN : ReplyDone(i, ok)
    \/ \E i \in 1..MaxEvents : RecordDone(i)
    \/ \E i \in 1..MaxEvents : DispatchDone(i)

InNext ==
    \/ HandlerNext
    \/ \E s \in Senders : Approve(s)

ReconfigNext ==
    \/ HandlerNext
    \/ \E c \in Configs : EditConfig(c)
    \/ Restart

\* ------------------------------------------------ the outbound delivery

\* A reply text is the sequence of its characters.
Chars == {"a", "<", ">", "*"}

\* stripMarkdown(convertMarkdownTables(text, tableMode)) of the host: the
\* markdown markers are gone.
stripMarkdown(text) == SelectSeq(text, LAMBDA c : c # "*")

\* Position of the first ">" of s, 0 when it has none
FirstClose(s) ==
    IF \E j \in DOMAIN s : s[j] = ">"
    THEN CHOOSE j \in DOMAIN s : s[j] = ">" /\ \A k \in 1..(j - 1) : s[k] # ">"
    ELSE 0

\* text.replace(/<[^>]+>/g, "")
RECURSIVE StripTags(_)
StripTags(s) ==
    IF \A i \in DOMAIN s : s[i] # "<" THEN s
    ELSE IF Head(s) = "<"
    THEN LET j == FirstClose(Tail(s))
         IN  IF j > 1
             THEN StripTags(SubSeq(Tail(s), j + 1, Len(s) - 1))
             ELSE <<"<">> \o StripTags(Tail(s))
    ELSE <<Head(s)>> \o StripTags(Tail(s))

\* sanitizeNapcatText(text)
sanitizeNapcatText(text) ==
    IF text = <<>> THEN <<>> ELSE StripTags(stripMarkdown(text))

\* core.channel.text.chunkTextWithMode(text, limit, "length") of the host:
\* hard cuts at the limit.
RECURSIVE chunkTextWithMode(_, _)
chunkTextWithMode(text, limit) ==
    IF text = <<>> THEN <<>>
    ELSE IF Len(text) <= limit THEN <<text>>
    ELSE <<SubSeq(text, 1, limit)>>
         \o chunkTextWithMode(SubSeq(text, limit + 1, Len(text)), limit)

\* Variant: the text is sent whole.
Candidates_Whole(text, limit) == <<text>>

\* sendTextChunks: const candidates = chunks.length > 0 ? chunks : [text]
Candidates(text, limit) ==
    LET chunks == chunkTextWithMode(text, limit)
    IN  IF Len(chunks) > 0 THEN chunks ELSE <<text>>

\* buildTextSegment / buildMediaSegment
buildTextSegment(text) == [type |-> "text", text |-> text, file |-> <<>>]

buildMediaSegment(type, file) == [type |-> type, text |-> <<>>, file |-> file]

\* Media references of a reply
Base64Ref == <<"base64:", "//", "AAAA">>

Base64Bare == <<"base64:", "AAAA">>

OpaqueRef == <<"foo.bin">>

MediaRefs == {HttpsRef, Base64Ref, Base64Bare, OpaqueRef}

\* /^base64:\/\//i.test(mediaUrl)
IsBase64Url(mediaUrl) ==
    /\ Len(mediaUrl) > 1
    /\ mediaUrl[1] \in {"base64:", "BASE64:"}
    /\ mediaUrl[2] = "//"

\* runtime.media.mediaKindFromMime(mime) of the host, for the mime
\* detectMime gave
MimeKinds == {"image", "audio", "video", "unknown"}

\* resolveMediaSegmentType after detectMime: lines 142-146
SegmentTypeOf(kind) ==
    IF kind = "image" THEN "image"
    ELSE IF kind = "audio" THEN "record"
    ELSE IF kind = "video" THEN "video"
    ELSE "null"

\* Variant: a reference of no known kind is sent as nothing.
MediaMessage_DropsUnknown(mediaType, text, mediaUrl) ==
    IF mediaType = "null" THEN <<>>
    ELSE (IF text # <<>> THEN <<buildTextSegment(text)>> ELSE <<>>)
         \o <<buildMediaSegment(mediaType, mediaUrl)>>

\* sendNapcatMedia after resolveMediaSegmentType: the `message` it sends,
\* through sendNapcatText when there is no media type
MediaMessage(mediaType, text, mediaUrl) ==
    IF mediaType = "null"
    THEN LET fallback == IF text # <<>> THEN text \o <<"\n">> \o mediaUrl
                         ELSE mediaUrl
         IN  <<buildTextSegment(fallback)>>
    ELSE (IF text # <<>> THEN <<buildTextSegment(text)>> ELSE <<>>)
         \o <<buildMediaSegment(mediaType, mediaUrl)>>

\* The deliver(payload) invocation.
\*   pc        : idle, send (awaiting sendOneBotAction), detect (awaiting
\*               detectMime), done, failed (deliver threw)
\*   text      : sanitizeNapcatText(payload.text ?? "")
\*   limit     : textLimit
\*   chunked   : the text handed to sendTextChunks, chunks: what the
\*               chunker returned for it, todo: the candidates still to go
\*   media     : the media references still to go, the one being sent first
\*   caption, first : as in deliver
\*   sending   : what the send awaited is: "chunk" or "media"
\*   settled   : sends that have settled
\*   statusUpdates : calls of the status sink
\*   mediaUrls : the media references of the payload
\*   mediaLog  : per media reference handled: the reference, the kind
\*               detection gave ("none" when it was not called), the media
\*               type resolved, the caption it was sent with and the
\*               position of its send in outbox
NoDelivery ==
    [pc |-> "idle", text |-> <<>>, limit |-> 0, chunked |-> <<>>,
     chunks |-> <<>>, todo |-> <<>>, media |-> <<>>, caption |-> <<>>,
     first |-> TRUE, sending |-> "", settled |-> 0, statusUpdates |-> 0,
     mediaUrls |-> <<>>, mediaLog |-> <<>>]

\* Variant: every media item is sent with the caption.
IssueMedia_CaptionOnAll(d, ob, kind, mediaType) ==
    LET mediaUrl == Head(d.media)
        text == d.caption
    IN  [d |-> [d EXCEPT !.pc = "send", !.sending = "media",
                         !.mediaLog =
                             Append(@, [ref |-> mediaUrl,
                                        kind |-> kind,
                                        mediaType |-> mediaType,
                                        text |-> text,
                                        at |-> Len(ob) + 1])],
         ob |-> Append(ob, MediaMessage(mediaType, text, mediaUrl))]

\* sendNapcatMedia from the media type on, for the first reference of
\* d.media: the send is issued. kind: what mediaKindFromMime gave, "none"
\* when detectMime was not called.
IssueMedia(d, ob, kind, mediaType) ==
    LET mediaUrl == Head(d.media)
        text == IF d.first THEN d.caption ELSE <<>>
    IN  [d |-> [d EXCEPT !.pc = "send", !.sending = "media",
                         !.mediaLog =
                             Append(@, [ref |-> mediaUrl,
                                        kind |-> kind,
                                        mediaType |-> mediaType,
                                        text |-> text,
                                        at |-> Len(ob) + 1])],
         ob |-> Append(ob, MediaMessage(mediaType, text, mediaUrl))]

\* deliver runs on to its next await: the next chunk that is not empty is
\* sent; with no chunk left the next media reference is resolved and sent;
\* with nothing left deliver returns.
RECURSIVE Advance(_, _)
Advance(d, ob) ==
    IF d.todo # <<>>
    THEN IF Head(d.todo) = <<>>
         THEN Advance([d EXCEPT !.todo = Tail(@)], ob)
         ELSE [d |-> [d EXCEPT !.pc = "send", !.sending = "chunk",
                               !.todo = Tail(@)],
               ob |-> Append(ob, <<buildTextSegment(
                                      sanitizeNapcatText(Head(d.todo)))>>)]
    ELSE IF d.media # <<>>
    THEN IF IsBase64Url(Head(d.media))
         THEN IssueMedia(d, ob, "none", "image")
         ELSE [d |-> [d EXCEPT !.pc = "detect"], ob |-> ob]
    ELSE [d |-> [d EXCEPT !.pc = "done"], ob |-> ob]

\* deliver(payload) up to its first await
DeliverStart(payload, textLimit) ==
    LET mediaUrls == payload.mediaUrls
        text == sanitizeNapcatText(payload.text)
        d0 == [NoDelivery EXCEPT !.text = text, !.limit = textLimit,
                                 !.mediaUrls = mediaUrls,
                                 !.media = mediaUrls]
    IN  IF mediaUrls = <<>>
        THEN Advance([d0 EXCEPT !.chunked = text,
                                !.chunks = chunkTextWithMode(text, textLimit),
                                !.todo = Candidates(text, textLimit)],
                     <<>>)
        ELSE IF text # <<>> /\ Len(text) > textLimit
        THEN Advance([d0 EXCEPT !.chunked = text,
                                !.chunks = chunkTextWithMode(text, textLimit),
                                !.todo = Candidates(text, textLimit)],
                     <<>>)
        ELSE Advance([d0 EXCEPT !.caption = text], <<>>)

OutInit ==
    /\ delivery = NoDelivery
    /\ outbox = <<>>

\* The dispatcher calls deliver(payload).
Deliver(payload, textLimit) ==
    /\ delivery.pc = "idle"
    /\ LET r == DeliverStart(payload, textLimit)
       IN  /\ delivery' = r.d
           /\ outbox' = r.ob
    /\ UNCHANGED <<connVars, gwVars, codecVars, inVars>>

\* The send awaited settles. ok: sendOneBotAction returned a response whose
\* status is not "failed"; otherwise sendNapcatText / sendNapcatMedia throws
\* and deliver ends.
SendDone(ok) ==
    /\ delivery.pc = "send"
    /\ IF ok
       THEN LET d1 == [delivery EXCEPT !.settled = @ + 1,
                                       !.statusUpdates = @ + 1]
                d2 == IF delivery.sending = "media"
                      THEN [d1 EXCEPT !.media = Tail(@), !.first = FALSE]
                      ELSE d1
                r == Advance(d2, outbox)
            IN  /\ delivery' = r.d
                /\ outbox' = r.ob
       ELSE /\ delivery' = [delivery EXCEPT !.pc = "failed",
                                            !.settled = @ + 1]
            /\ UNCHANGED outbox
    /\ UNCHANGED <<connVars, gwVars, codecVars, inVars>>

\* detectMime settles for the first reference of delivery.media and
\* mediaKindFromMime gives kind.
DetectDone(kind) ==
    /\ delivery.pc = "detect"
    /\ LET r == IssueMedia(delivery, outbox, kind, SegmentTypeOf(kind))
       IN  /\ delivery' = r.d
           /\ outbox' = r.ob
    /\ UNCHANGED <<connVars, gwVars, codecVars, inVars>>

\* Reply texts, captions and media lists handed to deliver
Texts == UNION {[1..n -> Chars] : n \in 0..MaxText}

Captions == {<<>>, <<"a">>, <<"a", "*", "a", "a">>}

MediaLists == UNION {[1..n -> MediaRefs] : n \in 1..MaxMedia}

Payloads ==
    {[text |-> t, mediaUrls |-> <<>>] : t \in Texts}
    \cup {[text |-> t, mediaUrls |-> m] : t \in Captions, m \in MediaLists}

TextLimits == {2, 3}

\* A plain text of 4500 characters
LongText == [i \in 1..4500 |-> "a"]

OutNext ==
    \/ \E p \in Payloads, textLimit \in TextLimits : Deliver(p, textLimit)
    \/ Deliver([text |-> LongText, mediaUrls |-> <<>>], DEFAULT_TEXT_LIMIT)
    \/ \E ok \in BOOLEAN : SendDone(ok)
    \/ \E kind \in MimeKinds : DetectDone(kind)

PipeInit == CodecInit /\ InInit /\ OutInit

\* -------------------------------------------------------- specifications

Init == ConnInit /\ GwInit /\ PipeInit

Next == ConnNext

Spec == Init /\ [][Next]_vars

SpecGateway == Init /\ [][GwNext]_vars

\* Timers of the event loop fire: a request timer or a reconnect timer that
\* stays armed runs.
TimerFairness ==
    /\ \A c \in 1..MaxCalls : WF_vars(OnTimeout(c))
    /\ \A i \in 1..MaxAttempts : WF_vars(RetryFire(i))

SpecLive == Init /\ [][Next]_vars /\ TimerFairness

SpecCodec == Init /\ [][CodecNext]_vars

\* The account was started with any of the configurations; the connection
\* has no HTTP base URL.
InboundInit ==
    /\ ConnInit /\ ~httpUrl
    /\ GwInit
    /\ CodecInit /\ OutInit
    /\ \E c \in Configs : InStarted(c)

DeliverInit == Init /\ ~httpUrl

SpecDeliver == DeliverInit /\ [][OutNext]_vars

SpecInbound == InboundInit /\ [][InNext]_vars

ReconfigInit ==
    ConnInit /\ ~httpUrl /\ GwInit /\ CodecInit /\ InInit /\ OutInit

SpecReconfig == ReconfigInit /\ [][ReconfigNext]_vars

\* ================================================================ claims

CallIds == 1..MaxCalls

\* Calls whose promise is registered in the table
Owners == {pending[e] : e \in DOMAIN pending}

\* ---------------------------------------------------------------- C1
\* C1: correlation isolation. A sendAction call that resolved with a
\* response frame resolved with the frame whose echo, as a string, is the
\* token assigned to that call, and no two calls resolved with the same
\* echo, whatever the order in which the frames arrived.
C1_CorrelationIsolation ==
    \A c \in CallIds :
        calls[c].outcome = "response" =>
            /\ calls[c].got = calls[c].token
            /\ \A d \in CallIds \ {c} :
                   calls[d].outcome = "response" => calls[d].got # calls[c].got

\* Call 1 was sent first and is still suspended; call 2, sent while call 1
\* was in flight, already has its own response.
C1_Witness ==
    /\ calls[1].state = "ws" /\ calls[1].token = "1"
    /\ calls[2].outcome = "response" /\ calls[2].got = "2"

\* ---------------------------------------------------------------- C2
\* C2: every pending entry is completed at most once. The resolve / reject
\* pair of a call's entry runs at most once over the whole run, an entry
\* that was completed has neither a table entry nor an armed timer left, and
\* one received frame gives a response to at most one caller.
C2_CompletedOnce ==
    \A c \in CallIds :
        /\ settled[c] <= 1
        /\ settled[c] = 1 => c \notin Owners /\ c \notin DOMAIN timers

C2_OneWaiterPerFrame ==
    Cardinality({c \in CallIds : /\ calls[c].outcome # "response"
                                 /\ calls'[c].outcome = "response"}) <= 1

C2_AtMostOnce == [](C2_CompletedOnce) /\ [][C2_OneWaiterPerFrame]_vars

\* Call 1 has its response; afterwards call 2 timed out and a further frame
\* was received that matched no entry.
C2_Witness ==
    /\ calls[1].outcome = "response" /\ settled[1] = 1
    /\ calls[2].wsError = ErrTimeout /\ settled[2] = 1
    /\ lastOp = [op |-> "message", info |-> "no_match"]

\* ---------------------------------------------------------------- C3
\* A frame is the response to a pending request when it parses to an object
\* without post_type whose echo, as a string, is the key of an entry.
IsPendingResponse(f) ==
    /\ f.parse = "object"
    /\ ~f.post_type
    /\ f.echo.t # "absent"
    /\ EchoKey(f.echo) \in DOMAIN pending

\* C3: a received frame that is not the response to a pending request
\* (parse failure, post_type present with or without an echo, no echo, an
\* echo that matches no entry) leaves the table, the timers, every caller
\* and the sockets as they were. In every state the message handler maps
\* each such frame to the table it found, and a run of the handler that
\* resolved nothing changed nothing.
C3_HandlerDrops ==
    \A f \in Frames :
        ~IsPendingResponse(f) =>
            /\ OnMessageEffect(Table, f).table = Table
            /\ OnMessageEffect(Table, f).info # "resolved"

C3_DroppedStep ==
    (lastOp'.op = "message" /\ lastOp'.info # "resolved") =>
        UNCHANGED <<pending, timers, settled, calls, socks, ws, stopped,
                    retryTimers, reconnectAttempts, echoCounter>>

C3_NonResponseFrameIsInert == [](C3_HandlerDrops) /\ [][C3_DroppedStep]_vars

\* The late response to a request that timed out was received and dropped
\* while another request is still pending.
C3_Witness ==
    /\ lastOp = [op |-> "message", info |-> "no_match"]
    /\ calls[1].wsError = ErrTimeout
    /\ calls[2].state = "ws"
    /\ DOMAIN pending = {"2"}

\* ---------------------------------------------------------------- C4
\* C4: the counter values turned into tokens are strictly increasing over
\* the life of the instance, reconnects included; no two calls ever got the
\* same token, and every entry of the table is the entry of the call that
\* was given its key.
C4_TokensIncrease ==
    /\ \A i, j \in DOMAIN assigned : i < j => assigned[i] < assigned[j]
    /\ \A c, d \in CallIds :
           (c # d /\ calls[c].token # "" /\ calls[d].token # "")
               => calls[c].token # calls[d].token
    /\ \A e \in DOMAIN pending : calls[pending[e]].token = e
    /\ \A c \in CallIds : calls[c].state = "ws" =>
           (calls[c].token \in DOMAIN pending /\ pending[calls[c].token] = c)

\* Call 1 was rejected by a closure; call 2 was sent on the socket of a
\* later connection.
C4_Witness ==
    /\ calls[1].wsError = ErrClosed
    /\ calls[2].state = "ws"
    /\ assigned = <<1, 2>>

\* ---------------------------------------------------------------- C5
\* C5: stop() is idempotent. The first stop() empties the table, rejects
\* each entry once (a suspended caller sees the stopped reason), clears the
\* timers of the entries and leaves `ws` null with its socket no longer
\* connecting or open. A stop() made when the instance is already stopped,
\* from outside or from the disconnected callback, changes nothing.
C5_FirstStop ==
    (~stopped /\ lastOp'.op = "stop" /\ Stop) =>
        /\ DOMAIN pending' = {}
        /\ \A c \in CallIds :
               IF c \in Owners
               THEN /\ settled'[c] = settled[c] + 1
                    /\ c \notin DOMAIN timers'
                    /\ calls[c].state = "ws" => calls'[c].wsError = ErrStopped
               ELSE settled'[c] = settled[c] /\ calls'[c] = calls[c]
        /\ ws' = 0
        /\ ws # 0 => socks'[ws] \in {CLOSING, CLOSED}

C5_LaterStop ==
    (stopped /\ lastOp'.op = "stop" /\ Stop) =>
        UNCHANGED <<ws, stopped, echoCounter, reconnectAttempts, pending,
                    socks, timers, retryTimers, calls, settled>>

C5_StopInCallback ==
    stopped =>
        \A s \in 1..MaxSockets : OnClose(s, TRUE) => OnClose(s, FALSE)

C5_StopIdempotent ==
    [][C5_FirstStop /\ C5_LaterStop /\ C5_StopInCallback]_vars

\* stop() ran a second time, after a first stop() that rejected a suspended
\* caller.
C5_Witness ==
    /\ lastOp = [op |-> "stop", info |-> "again"]
    /\ \E c \in CallIds : calls[c].wsError = ErrStopped

\* ---------------------------------------------------------------- C6
\* C6: once stop() has been called the instance stays stopped, `ws` is null
\* and isConnected() is false, none of its sockets is connecting or open,
\* and no new socket is created.
C6_StoppedState ==
    stopped =>
        /\ ws = 0
        /\ ~isConnected
        /\ \A s \in DOMAIN socks : socks[s] \in {CLOSING, CLOSED}

C6_StoppedStep ==
    stopped =>
        /\ stopped'
        /\ \A s \in DOMAIN socks : socks[s] = CLOSED => socks'[s] = CLOSED

C6_StopIsFinal == [](C6_StoppedState) /\ [][C6_StoppedStep]_vars

\* stop() was called while a reconnect timer was armed: the timer is still
\* to fire.
C6_Witness == stopped /\ retryTimers # <<>>

\* ---------------------------------------------------------------- C7
\* The delays 1000, 2000, 4000, 8000, 15000, 15000, ... by position
ExpectedDelay(n) ==
    IF n < 4 THEN <<1000, 2000, 4000, 8000>>[n + 1] ELSE 15000

\* C7: an armed reconnect timer has the delay min(1000 * 2^n, 15000), where
\* n counts the closures before the one that armed it since the last
\* successful open (since creation when there was none).
C7_BackoffDelay ==
    \A i \in DOMAIN retryTimers :
        /\ failStreak >= 1
        /\ retryTimers[i] = ExpectedDelay(failStreak - 1)
        /\ retryTimers[i] = Min(1000 * Pow2(failStreak - 1), 15000)

\* The fifth closure in a row armed the timer with the ceiling.
C7_Witness == failStreak = 5 /\ retryTimers = <<15000>>

\* ---------------------------------------------------------------- C8
\* What a call that found the socket not open, or whose socket send threw,
\* must show: HTTP when a base URL is configured, else the failure `err`.
FallbackRule(c, errNotOpen) ==
    LET k == calls[c]
    IN  (k.route = "http" \/ k.wsError = ErrSend) =>
            IF httpUrl THEN k.http
            ELSE /\ ~k.http
                 /\ k.state = "done"
                 /\ k.outcome = IF k.route = "http" THEN errNotOpen
                                ELSE ErrSend

C9_TimeoutPropagates ==
    \A c \in CallIds :
        calls[c].wsError = ErrTimeout =>
            /\ calls[c].token \notin DOMAIN pending
            /\ ~calls[c].http
            /\ calls[c].state = "done"
            /\ calls[c].outcome = ErrTimeout

\* ---------------------------------------------------------------- C10
\* Connections of account a that are not stopped
Live(a) == {i \in DOMAIN conns : conns[i].account = a /\ ~conns[i].stopped}

\* C10: at most one live connection per account identifier.
C10_OneLivePerAccount == \A a \in Accounts : Cardinality(Live(a)) <= 1

\* ---------------------------------------------------------------- C15
\* References that look real (URL scheme, absolute path, base64:) and
\* strings that do not
RealRefs == {HttpsRef, <<" ", "https:", "//", "x/y.png", " ">>,
             <<"http:", "//", "x/y.png">>, <<"file:", "//", "/tmp/a.png">>,
             <<"base64:", "//", "AAAA">>, <<"base64:", "AAAA">>,
             <<"/", "tmp/a.png">>, <<"C:", "\\", "a.png">>,
             <<"d:", "/", "a.png">>}

UnrealRefs == {<<>>, <<" ">>, <<"foo.jpg">>, <<"C:", "a.png">>,
               <<"ftp-like", "//", "x">>, <<"a.png", "/">>}

IsTextPart(seg) == seg.type = "text" /\ seg.text.t = "str"

\* The texts of the text segments, in order, concatenated
TextOf(segs) ==
    LET sel == SelectSeq(segs, IsTextPart)
    IN  Join([i \in 1..Len(sel) |-> sel[i].text.s])

KindOf(type) == CASE type = "image" -> "image"
                  [] type = "record" -> "audio"
                  [] type = "video" -> "video"

IsReal(v) == v.t = "str" /\ v.s \in RealRefs

\* The reference field of a media segment: url when the segment has one,
\* else file
RefField(seg) == IF seg.url.t \notin {"undef", "null"} THEN seg.url
                 ELSE seg.file

ContributesByRefField(seg) ==
    seg.type \in MediaSegmentTypes /\ IsReal(RefField(seg))

\* A media segment one of whose fields url, file looks like a reference
ContributesByEitherField(seg) ==
    seg.type \in MediaSegmentTypes /\ (IsReal(seg.url) \/ IsReal(seg.file))

EitherField(seg) == IF IsReal(seg.url) THEN seg.url ELSE seg.file

CodecOnStringsAndText ==
    /\ \A r \in RealRefs : isLikelyMediaRef(r)
    /\ \A r \in UnrealRefs : ~isLikelyMediaRef(r)
    /\ Len(parsed.mediaUrls) = Len(parsed.mediaTypes)
    /\ message.kind = "string" =>
           parsed = [text |-> message.s, mediaUrls |-> <<>>,
                     mediaTypes |-> <<>>]
    /\ message.kind = "array" => parsed.text = TextOf(message.segs)

\* C15 as stated: the references are those of the image / record / video
\* segments whose url or file looks like a real reference.
C15_EitherFieldContributes ==
    /\ CodecOnStringsAndText
    /\ message.kind = "array" =>
           LET sel == SelectSeq(message.segs, ContributesByEitherField)
           IN  /\ parsed.mediaUrls =
                      [i \in 1..Len(sel) |-> EitherField(sel[i]).s]
               /\ parsed.mediaTypes =
                      [i \in 1..Len(sel) |-> KindOf(sel[i].type)]

\* C15 as amended: the text is the concatenation of the text segments in
\* order; the references are, in segment order, those of the image / record
\* / video segments whose reference field (url when the segment has a url,
\* else file) is a string that looks like a real reference, tagged image /
\* audio / video; every other segment contributes nothing, and there are as
\* many kinds as references.
C15_InboundCodec ==
    /\ CodecOnStringsAndText
    /\ message.kind = "array" =>
           LET sel == SelectSeq(message.segs, ContributesByRefField)
           IN  /\ parsed.mediaUrls =
                      [i \in 1..Len(sel) |-> RefField(sel[i]).s]
               /\ parsed.mediaTypes =
                      [i \in 1..Len(sel) |-> KindOf(sel[i].type)]

\* [{text: "hi"}, {image, url: "https://x/y.png"}] was parsed.
C15_Witness ==
    /\ message.kind = "array"
    /\ Len(message.segs) = 2
    /\ message.segs[1].type = "text" /\ message.segs[1].text = StrVal(<<"hi">>)
    /\ message.segs[2].type = "image"
    /\ message.segs[2].url = StrVal(HttpsRef)
    /\ parsed = [text |-> <<"hi">>, mediaUrls |-> <<HttpsRef>>,
                 mediaTypes |-> <<"image">>]

\* ------------------------------------------------ the inbound pipeline
\* Invocations by what they did

Invocations == DOMAIN handlers

\* The invocation got the result of its read of the allow-list store.
Checked(h) == h.stored # ""

\* The invocation called nothing that has an effect and told nobody.
NoEffect(h) ==
    /\ h.upserts = 0 /\ h.replies = 0 /\ h.records = 0 /\ h.dispatches = 0
    /\ h.statusUpdates = 0 /\ ~h.threw

\* The entries of a list, normalized
Normalized(list) == {normalizeAllowEntry(list[i]) : i \in DOMAIN list}

\* The store as invocation h read it in the step being taken
StoreAsRead(h) == IF h.stored = "ok" THEN allowStore ELSE <<>>

\* Sender id is in the union of the two normalized lists.
InUnion(id, configured, stored) ==
    normalizeAllowEntry(id) \in Normalized(configured) \cup Normalized(stored)

\* ... or the union has the wildcard entry.
InUnionOrWildcard(id, configured, stored) ==
    \/ InUnion(id, configured, stored)
    \/ <<"*">> \in Normalized(configured) \cup Normalized(stored)

\* ---------------------------------------------------------------- C11
\* Under allowlist an invocation dispatches exactly when it found the sender
\* authorized, and the message of a sender it found unauthorized is dropped
\* with no reply, no pairing request and no dispatch.
AllowlistDropsUnauthorized ==
    \A i \in Invocations :
        LET h == handlers[i]
        IN  (h.dmPolicy = "allowlist" /\ Checked(h)) =>
                /\ h.decision = IF h.senderAllowed THEN "dispatch" ELSE "drop"
                /\ ~h.senderAllowed => h.pc = "done" /\ NoEffect(h)

AllowlistExample ==
    /\ isSenderAllowed(<<"qq:", "123">>, normalizeAllowList(<<<<"123">>>>))
    /\ ~isSenderAllowed(<<"456">>, normalizeAllowList(<<<<"123">>>>))

\* C11 as stated: the invocation that gets the result of its store read
\* finds the sender authorized iff the sender's normalized identifier is in
\* the union of the normalized configured list and the normalized store.
C11_MemberStep ==
    \A i \in Invocations :
        (handlers[i].pc = "read" /\ handlers'[i].pc # "read"
         /\ handlers'[i].dmPolicy = "allowlist") =>
            (handlers'[i].senderAllowed <=>
                 InUnion(handlers[i].event.user_id, account.allowFrom,
                         StoreAsRead(handlers'[i])))

C11_AllowlistByMembership ==
    /\ [](AllowlistDropsUnauthorized /\ AllowlistExample)
    /\ [][C11_MemberStep]_vars

\* C11 as amended: ... or the union holds the wildcard entry "*", which
\* authorizes every sender; a store that could not be read counts as empty.
C11_MemberOrWildcardStep ==
    \A i \in Invocations :
        (handlers[i].pc = "read" /\ handlers'[i].pc # "read"
         /\ handlers'[i].dmPolicy = "allowlist") =>
            (handlers'[i].senderAllowed <=>
                 InUnionOrWildcard(handlers[i].event.user_id,
                                   account.allowFrom,
                                   StoreAsRead(handlers'[i])))

C11_AllowlistByMembershipOrWildcard ==
    /\ [](AllowlistDropsUnauthorized /\ AllowlistExample)
    /\ [][C11_MemberOrWildcardStep]_vars

\* Allow-list ["qq:123"]: the message of 123 was dispatched, the message of
\* 456 was dropped; 456 then entered the store.
C11_Witness ==
    /\ account.dmPolicy = "allowlist"
    /\ account.allowFrom = <<<<"qq:", "123">>>>
    /\ Len(handlers) = 2
    /\ handlers[1].event.user_id = Bob /\ handlers[1].decision = "drop"
    /\ handlers[2].event.user_id = Alice
    /\ handlers[2].decision = "dispatch"
    /\ allowStore = <<Bob>>

\* ---------------------------------------------------------------- C12
\* Invocations for sender s that took the pairing flow
PairingFlow(s) ==
    {i \in Invocations : /\ handlers[i].event.user_id = s
                         /\ handlers[i].decision = "pairing"}

Requests(s) ==
    Cardinality({j \in DOMAIN pairingStore : pairingStore[j] = s})

PairingReplies(s) ==
    Cardinality({i \in PairingFlow(s) : handlers[i].replies = 1})

IsApproved(s) == \E j \in DOMAIN allowStore : allowStore[j] = s

\* C12: under pairing, for the messages of one unauthorized sender before
\* approval: the store holds one request for the sender once a message got
\* as far as the upsert, one pairing reply was sent, by the invocation that
\* created the request, the other invocations sent none, and none of the
\* messages reached the session record or the dispatcher.
C12_OnePairingReply ==
    /\ \A i \in Invocations :
           /\ handlers[i].replies <= 1
           /\ handlers[i].replies = 1 => handlers[i].decision = "pairing"
           /\ handlers[i].decision = "pairing" =>
                  /\ handlers[i].records = 0
                  /\ handlers[i].dispatches = 0
                  /\ handlers[i].dmPolicy = "pairing"
                  /\ ~handlers[i].senderAllowed
    /\ \A s \in Senders :
           ~IsApproved(s) =>
               /\ Requests(s) <= 1
               /\ PairingReplies(s) = Requests(s)
               /\ (\E i \in PairingFlow(s) : handlers[i].pc # "upsert")
                      => Requests(s) = 1

\* Two messages of 456 under pairing: both are through, the first got the
\* pairing reply, the second got none.
C12_Witness ==
    /\ Len(handlers) = 2
    /\ \A i \in {1, 2} : /\ handlers[i].event.user_id = Bob
                         /\ handlers[i].decision = "pairing"
                         /\ handlers[i].pc = "done"
    /\ handlers[1].replies = 1 /\ handlers[2].replies = 0
    /\ pairingStore = <<Bob>>

\* ---------------------------------------------------------------- C13
\* C13: under disabled an invocation upserts no pairing request, sends
\* nothing, records no session, does not reach the dispatcher and does not
\* tell the status sink, whoever the sender is and whatever the lists hold.
C13_DisabledDropsAll ==
    /\ \A i \in Invocations :
           handlers[i].dmPolicy = "disabled" =>
               /\ NoEffect(handlers[i])
               /\ handlers[i].pc \in {"read", "done"}
               /\ handlers[i].decision \in {"", "drop"}
    /\ account.dmPolicy = "disabled" => pairingStore = <<>>

\* Under disabled the message of a sender who is on the configured
\* allow-list was dropped.
C13_Witness ==
    /\ account.dmPolicy = "disabled"
    /\ \E i \in Invocations :
           /\ handlers[i].event.user_id = Alice
           /\ handlers[i].senderAllowed
           /\ handlers[i].decision = "drop"
           /\ handlers[i].pc = "done"

\* ---------------------------------------------------------------- C14
\* The event is a private message of somebody other than the bot.
PrivateMessageOfOther(e) ==
    /\ e.post_type = "message"
    /\ e.message_type = "private"
    /\ e.user_id # e.self_id

\* C14: an event that is no private message, or that the bot sent itself,
\* ends its invocation at once: no policy was read, no store was read,
\* nothing was upserted, sent, recorded or dispatched, and nothing was thrown.
C14_FilterFirst ==
    /\ \A i \in Invocations :
           ~PrivateMessageOfOther(handlers[i].event) =>
               /\ handlers[i].pc = "done"
               /\ handlers[i].decision = "ignored"
               /\ handlers[i].dmPolicy = ""
               /\ handlers[i].stored = ""
               /\ NoEffect(handlers[i])
    /\ (\A i \in Invocations : ~PrivateMessageOfOther(handlers[i].event))
           => pairingStore = <<>>

\* Under pairing a group message and a message of the bot itself were
\* ignored.
C14_Witness ==
    /\ account.dmPolicy = "pairing"
    /\ Len(handlers) = 2
    /\ handlers[1].event.message_type = "group"
    /\ handlers[2].event.user_id = SelfId
    /\ handlers[2].decision = "ignored"

\* ---------------------------------------------------------------- C18
\* The decision for a policy and a membership
DecisionOf(policy, member) ==
    CASE policy = "open" -> "dispatch"
      [] policy = "disabled" -> "drop"
      [] policy = "allowlist" -> IF member THEN "dispatch" ELSE "drop"
      [] policy = "pairing" -> IF member THEN "dispatch" ELSE "pairing"

\* C18: the decision of an invocation is DecisionOf(policy, membership),
\* for the policy the invocation evaluated and the membership of its sender
\* in the lists as the invocation read them (wildcard included, a store
\* that could not be read being empty): every sender is dispatched under
\* open, an authorized sender under pairing is dispatched with the command
\* authorization open gives, and two invocations with the same policy and
\* membership decided the same, whatever their messages and whatever ran
\* before or between their steps.
C18_Decisions ==
    /\ \A i \in Invocations :
           LET h == handlers[i]
           IN  Checked(h) =>
                   /\ h.decision = DecisionOf(h.dmPolicy, h.senderAllowed)
                   /\ h.decision = "dispatch" =>
                          /\ h.commandAuthorized
                          /\ h.records = 1 /\ h.upserts = 0 /\ h.replies = 0
    /\ \A i, j \in Invocations :
           (/\ Checked(handlers[i]) /\ Checked(handlers[j])
            /\ handlers[i].dmPolicy = handlers[j].dmPolicy
            /\ handlers[i].senderAllowed = handlers[j].senderAllowed)
               => handlers[i].decision = handlers[j].decision

C18_DecisionStep ==
    \A i \in Invocations :
        (handlers[i].pc = "read" /\ handlers'[i].pc # "read") =>
            LET member == InUnionOrWildcard(handlers[i].event.user_id,
                                            account.allowFrom,
                                            StoreAsRead(handlers'[i]))
            IN  /\ handlers'[i].senderAllowed = member
                /\ handlers'[i].decision =
                       DecisionOf(handlers[i].dmPolicy, member)

C18_DecisionIsPure == [](C18_Decisions) /\ [][C18_DecisionStep]_vars

\* Under pairing two messages of the authorized sender 123, a text and an
\* image, were both dispatched while 456 had entered the store.
C18_Witness ==
    /\ account.dmPolicy = "pairing"
    /\ Len(handlers) = 2
    /\ handlers[1].event = MessageEvent(Alice, Hi)
    /\ handlers[2].event = MessageEvent(Alice, ImageOnly)
    /\ handlers[1].decision = "dispatch" /\ handlers[2].decision = "dispatch"
    /\ handlers[2].body = <<"sent a ", "image", " attachment">>
    /\ IsApproved(Bob)

\* ---------------------------------------------------------------- C19
\* C19: an invocation evaluates the dmPolicy and the allowFrom the live
\* configuration has when its event arrives.
C19_LivePolicyStep ==
    Len(handlers') > Len(handlers) =>
        LET h == handlers'[Len(handlers')]
        IN  Filter(h.event) =>
                /\ h.dmPolicy = IF liveCfg.dmPolicy = "" THEN "open"
                                ELSE liveCfg.dmPolicy
                /\ h.configAllowFrom = normalizeAllowList(liveCfg.allowFrom)

C19_PolicyReread == [][C19_LivePolicyStep]_vars

\* ---------------------------------------------------------------- C20
\* C20: a call that was suspended on its socket request when stop() ran
\* completes with the stopped failure, with or without an HTTP base URL.
C20_StoppedReasonPropagates ==
    \A c \in CallIds :
        calls[c].wsError = ErrStopped =>
            /\ ~calls[c].http
            /\ calls[c].state = "done"
            /\ calls[c].outcome = ErrStopped

\* ------------------------------------------------ the outbound delivery
\* The sends of outbox that carry chunks: those before the first media send
ChunkSends ==
    IF delivery.mediaLog = <<>> THEN Len(outbox)
    ELSE delivery.mediaLog[1].at - 1

\* The text of a send that is one text segment
TextOfSend(m) == m[1].text

\* ---------------------------------------------------------------- C16
\* C16: the sends made for a reply text are, in order, one send per chunk
\* the chunker returned, each carrying that chunk; a send is issued only
\* when every earlier send has settled; all chunks are out before deliver
\* goes on or returns; with hard cuts the chunks are not empty, at most
\* `limit` long, and concatenate to the text. A text of 4500 characters with
\* limit 2000 gives 3 sends of at most 2000 characters that concatenate to
\* the text.
C16_ChunkedDelivery ==
    LET d == delivery
    IN  /\ ChunkSends <= Len(d.chunks)
        /\ \A k \in 1..ChunkSends : outbox[k] = <<buildTextSegment(d.chunks[k])>>
        /\ Len(outbox) = d.settled + (IF d.pc = "send" THEN 1 ELSE 0)
        /\ (d.pc \in {"done", "detect"} \/ d.mediaLog # <<>>)
               => ChunkSends = Len(d.chunks)
        /\ \A k \in DOMAIN d.chunks :
               d.chunks[k] # <<>> /\ Len(d.chunks[k]) <= d.limit
        /\ Join(d.chunks) = d.chunked
        /\ (d.pc = "done" /\ d.chunked = LongText
            /\ d.limit = DEFAULT_TEXT_LIMIT) =>
               /\ Len(outbox) = 3
               /\ \A k \in 1..3 : Len(TextOfSend(outbox[k])) <= 2000
               /\ Join([k \in 1..3 |-> TextOfSend(outbox[k])]) = LongText

\* The text of 4500 characters went out in 3 sends.
C16_Witness ==
    /\ delivery.pc = "done"
    /\ delivery.chunked = LongText
    /\ Len(outbox) = 3
    /\ Len(TextOfSend(outbox[3])) = 500

\* ---------------------------------------------------------------- C17
\* What the send made for a handled media reference must be
MediaSendIsRight(m) ==
    /\ m.at \in DOMAIN outbox
    /\ IF m.mediaType = "null"
       THEN outbox[m.at] =
                <<buildTextSegment(IF m.text # <<>>
                                   THEN m.text \o <<"\n">> \o m.ref
                                   ELSE m.ref)>>
       ELSE /\ outbox[m.at][Len(outbox[m.at])] =
                   buildMediaSegment(m.mediaType, m.ref)
            /\ Len(outbox[m.at]) = IF m.text # <<>> THEN 2 ELSE 1
    /\ m.kind # "none" =>
           m.mediaType = CASE m.kind = "image" -> "image"
                           [] m.kind = "audio" -> "record"
                           [] m.kind = "video" -> "video"
                           [] OTHER -> "null"

\* One send per reference handled, after the chunk sends, in order
MediaSendsInOrder ==
    /\ \A k \in DOMAIN delivery.mediaLog :
           /\ delivery.mediaLog[k].at = ChunkSends + k
           /\ MediaSendIsRight(delivery.mediaLog[k])
    /\ Len(outbox) = ChunkSends + Len(delivery.mediaLog)

\* C17 as stated: ... a reference with the base64: scheme is classified as
\* image without a call of MIME detection.
C17_Base64SchemeIsImage ==
    /\ MediaSendsInOrder
    /\ \A k \in DOMAIN delivery.mediaLog :
           LET m == delivery.mediaLog[k]
           IN  IF m.ref[1] = "base64:"
               THEN m.kind = "none" /\ m.mediaType = "image"
               ELSE m.kind # "none"

\* C17 as amended: a media reference for which no kind can be determined is
\* sent as one text send whose text is the caption, a line break and the
\* raw reference (the raw reference alone without caption); a reference
\* that starts with base64:// is classified as image without a call of MIME
\* detection; for every other reference, base64: without // included,
\* detection is called and the kind maps image to image, audio to record,
\* video to video.
C17_UnknownKindDegradesToText ==
    /\ MediaSendsInOrder
    /\ \A k \in DOMAIN delivery.mediaLog :
           LET m == delivery.mediaLog[k]
           IN  IF m.ref[1] = "base64:" /\ m.ref[2] = "//"
               THEN m.kind = "none" /\ m.mediaType = "image"
               ELSE m.kind # "none"

\* A reference of no known kind went out as caption and raw reference in
\* one text send, and the base64:// reference after it as an image.
C17_Witness ==
    /\ delivery.pc = "done"
    /\ Len(delivery.mediaLog) = 2
    /\ delivery.mediaLog[1].ref = OpaqueRef
    /\ delivery.mediaLog[1].kind = "unknown"
    /\ outbox[1] = <<buildTextSegment(<<"a", "\n", "foo.bin">>)>>
    /\ delivery.mediaLog[2].ref = Base64Ref
    /\ outbox[2] = <<buildMediaSegment("image", Base64Ref)>>

\* ---------------------------------------------------------------- C21
\* C21: when the delivery of a reply text ends on a failed send of a chunk
\* other than the first, the chunks after the failed one have still been
\* sent.
C21_LaterChunksStillSent ==
    (/\ delivery.pc = "failed"
     /\ delivery.sending = "chunk"
     /\ Len(outbox) > 1)
        => ChunkSends = Len(delivery.chunks)

\* ---------------------------------------------------------------- C22
\* Whether the send made for a handled media reference carries a text
\* segment before its media segment, or text before the raw reference
CarriesCaption(m) ==
    IF m.mediaType = "null"
    THEN TextOfSend(outbox[m.at]) # m.ref
    ELSE Len(outbox[m.at]) > 1

\* C22: the media sends of one delivery are one per item, in item order,
\* after the chunk sends, each issued only when every earlier send has
\* settled, and all items are out when deliver returns; the caption is
\* carried by the first item only, as a text segment before the media
\* segment; a caption longer than the text limit is sent first as text
\* chunks and no item carries a caption, and a caption within the limit is
\* not also sent as text.
C22_MediaOneByOne ==
    LET d == delivery
        log == delivery.mediaLog
        long == d.mediaUrls # <<>> /\ Len(d.text) > d.limit
    IN  /\ Len(log) <= Len(d.mediaUrls)
        /\ Len(outbox) <= d.settled + 1
        /\ d.pc = "done" => Len(log) = Len(d.mediaUrls)
        /\ (d.mediaUrls # <<>> /\ ~long) => ChunkSends = 0
        /\ (long /\ log # <<>>) =>
               ChunkSends = Len(d.chunks) /\ ChunkSends >= 1
        /\ \A k \in DOMAIN log :
               /\ log[k].ref = d.mediaUrls[k]
               /\ log[k].at = ChunkSends + k
               /\ log[k].at \in DOMAIN outbox
               /\ CarriesCaption(log[k]) <=> (k = 1 /\ ~long /\ d.text # <<>>)
               /\ (CarriesCaption(log[k]) /\ log[k].mediaType # "null") =>
                      outbox[log[k].at] =
                          <<buildTextSegment(d.text),
                            buildMediaSegment(log[k].mediaType, log[k].ref)>>

\* Two media items went out, the first with the caption before its media
\* segment, the second with its media segment alone.
C22_Witness ==
    /\ delivery.pc = "done"
    /\ delivery.mediaUrls = <<HttpsRef, Base64Ref>>
    /\ outbox = << <<buildTextSegment(<<"a">>),
                     buildMediaSegment("video", HttpsRef)>>,
                   <<buildMediaSegment("image", Base64Ref)>> >>

\* ---------------------------------------------------------------- C23
\* The sockets that are connecting or open, and those that have not yet
\* emitted "close"
LiveSockets == {s \in DOMAIN socks : socks[s] \in {CONNECTING, OPEN}}

UnclosedSockets == {s \in DOMAIN socks : socks[s] # CLOSED}

\* At most one socket or one reconnect timer, never both
C23_OneAttempt ==
    /\ Cardinality(LiveSockets) <= 1
    /\ Len(retryTimers) <= 1
    /\ ~(LiveSockets # {} /\ retryTimers # <<>>)
    /\ Cardinality(UnclosedSockets) + Len(retryTimers) <= 1

\* A step that arms a reconnect timer is the close handler of the one
\* socket there was: the socket is closed by it, `ws` is null, the table is
\* empty, and the connection is not stopped after the handler, so that the
\* disconnected callback, which may call stop(), ran before the timer was
\* scheduled.
C23_TimerOnlyByClosure ==
    Len(retryTimers') > Len(retryTimers) =>
        /\ retryTimers = <<>>
        /\ \E s \in UnclosedSockets :
               /\ UnclosedSockets = {s}
               /\ socks'[s] = CLOSED
        /\ ws' = 0
        /\ DOMAIN pending' = {}
        /\ ~stopped'

\* C23: in every reachable state of one connection instance there is at
\* most one socket that is connecting or open and at most one pending
\* reconnect timer, never both; a reconnect timer is created only by the
\* closure of the previous socket, after the disconnected callback has run.
C23_SequentialReconnect == [](C23_OneAttempt) /\ [][C23_TimerOnlyByClosure]_vars

\* The second closure in a row has armed its reconnect timer.
C23_Witness ==
    /\ failStreak = 2
    /\ Len(retryTimers) = 1
    /\ LiveSockets = {}
    /\ ~stopped

\* ---------------------------------------------------------------- C24
\* While there are pending entries, the next sendAction call, the message
\* handler of every socket that can receive, and every armed reconnect
\* timer can run.
C24_NothingBlocked ==
    DOMAIN pending # {} =>
        /\ \A c \in 1..MaxCalls :
               (/\ calls[c].state = "idle"
                /\ \A d \in 1..(c - 1) : calls[d].state # "idle")
                   => ENABLED SendAction(c, FALSE)
        /\ \A s \in DOMAIN socks :
               socks[s] \in {OPEN, CLOSING} =>
                   \A f \in Frames : ENABLED OnMessage(s, f)
        /\ \A i \in DOMAIN retryTimers :
               (stopped \/ FreeSlots # {}) => ENABLED RetryFire(i)

\* C24: with timers that fire, every entry of the pending table is
\* eventually removed, whatever sends, frames, closures and reconnects
\* happen; and a pending entry blocks no new send, no frame receipt and no
\* reconnect timer.
C24_EntriesEventuallyRemoved ==
    /\ [](C24_NothingBlocked)
    /\ \A c \in CallIds : (c \in Owners) ~> (c \notin Owners)

\* The first request timed out and its entry is gone, while the second
\* request, sent in the meantime, got its response.
C24_Witness ==
    /\ calls[1].wsError = ErrTimeout
    /\ calls[2].outcome = "response"
    /\ Owners = {}

\* ---------------------------------------------------------------- C25
\* A connection that was not stopped has a socket that has not emitted
\* "close" or an armed reconnect timer.
C25_NeverIdle ==
    ~stopped => (UnclosedSockets # {} \/ retryTimers # <<>>)

\* Every closure that leaves the connection not stopped arms a reconnect
\* timer, however many closures came before.
C25_ClosureArmsTimer ==
    (/\ ~stopped'
     /\ \E s \in DOMAIN socks : socks[s] # CLOSED /\ socks'[s] = CLOSED)
        => Len(retryTimers') = Len(retryTimers) + 1

\* C25: while stop() is not called, every socket closure is eventually
\* followed by a new connection attempt, after any number of closures, and
\* the connection is never without a socket and without a reconnect timer.
C25_RetriesForever ==
    /\ [](C25_NeverIdle)
    /\ [][C25_ClosureArmsTimer]_vars
    /\ (retryTimers # <<>> /\ ~stopped) ~> (LiveSockets # {} \/ stopped)

\* After three closures in a row the fourth socket is connecting.
C25_Witness ==
    /\ failStreak = 3
    /\ LiveSockets # {}
    /\ retryTimers = <<>>
    /\ ~stopped

\* ---------------------------------------------------------------- C26
\* While the table has entries, `ws` refers to a socket that has been open
\* and has not emitted "close", and there is no other such socket.
C26_EntriesOnCurrentSocket ==
    DOMAIN pending # {} =>
        /\ ws # 0
        /\ socks[ws] \in {OPEN, CLOSING}
        /\ UnclosedSockets = {ws}

\* The table is empty after a step on which a socket emits "close", and
\* before and after a step on which a socket is created; an entry is added
\* only for the open socket `ws` refers to; and no step with entries in the
\* table makes `ws` refer to another socket.
C26_EntriesDieWithSocket ==
    /\ (\E s \in DOMAIN socks : socks[s] # CLOSED /\ socks'[s] = CLOSED)
           => DOMAIN pending' = {}
    /\ (\E s \in DOMAIN socks : socks[s] = CLOSED /\ socks'[s] # CLOSED)
           => DOMAIN pending = {} /\ DOMAIN pending' = {}
    /\ (DOMAIN pending' \ DOMAIN pending # {})
           => ws # 0 /\ socks[ws] = OPEN /\ ws' = ws /\ socks' = socks
    /\ (DOMAIN pending # {} /\ DOMAIN pending' # {}) => ws' = ws

\* C26: every pending entry belongs to a request made on the socket `ws`
\* currently refers to; after any socket closure the table is empty, so a
\* frame received on a later socket cannot resolve a request made on an
\* earlier one.
C26_NoEntryOutlivesItsSocket ==
    [](C26_EntriesOnCurrentSocket) /\ [][C26_EntriesDieWithSocket]_vars

\* The first request was rejected by a closure, and the second request is
\* pending on the socket opened afterwards.
C26_Witness ==
    /\ calls[1].wsError = ErrClosed
    /\ calls[2].state = "ws"
    /\ Owners = {2}
    /\ ws # 0

\* ---------------------------------------------------------------- C27
\* C27: every connection held in the registry is not stopped: the stop
\* handle, stopAccount and the abort signal all remove the entry of the
\* connection they stop.
C27_RegistryHoldsNoStopped ==
    \A a \in Accounts :
        activeConnections[a] # 0 => ~conns[activeConnections[a]].stopped

\* ---------------------------------------------------------------- C28
\* The connections startAccount created for account a
StartsOf(a) == {i \in DOMAIN conns : conns[i].account = a}

\* C28: the stop handle of a start removes only the connection that start
\* created: the connection of the latest start of an account, while it is
\* not stopped, is the one registered under that account.
C28_LatestStartStaysRegistered ==
    \A a \in Accounts : \A i \in StartsOf(a) :
        ((\A j \in StartsOf(a) : j <= i) /\ ~conns[i].stopped)
            => activeConnections[a] = i

\* ---------------------------------------------------------------- C29
\* C29: every pending entry has a caller still suspended on it: when the
\* write to the socket fails after the entry was registered, the entry and
\* its timer are not left in the table.
C29_EntryHasSuspendedCaller ==
    /\ \A c \in Owners : calls[c].state = "ws"
    /\ \A c \in DOMAIN timers : calls[c].state = "ws"

====
